---- MODULE Spec2Model ----
(***************************************************************************)
(* Verification model of the cognito-chatbot-app repository: the edge      *)
(* Gatekeeper (middleware.js), the authorization policies, the Pages-Router*)
(* page loaders, and the chatbot / admin backend handlers with knowledge   *)
(* retrieval and answer generation.                                        *)
(*                                                                         *)
(* Strings the code inspects character by character (request paths) are    *)
(* sequences of one-character strings.  Cookie names are sequences of      *)
(* their dot-separated components.  Error messages are sequences of text   *)
(* fragments in which every keyword the handlers search for is a fragment  *)
(* of its own.                                                             *)
(***************************************************************************)
EXTENDS Integers, Sequences, FiniteSets, TLC

VARIABLES
  cookies,        \* the browser's cookie jar, in Cookie-header order
  now,            \* current time, Unix seconds
  resp,           \* the response of the last front-end operation
  respFresh,      \* TRUE while cookies and now are those resp was computed from
  store,          \* the objects listed under knowledge-base/ in the bucket
  verifierReady,  \* whether jwtVerifier was created at module load
  lam,            \* the event digest, response and effects of the last Lambda invocation
  px,             \* the request, upstream answer and response of the last proxy call
  lastPrompt,     \* what constructPrompt last returned
  pool,           \* the user pool's accounts and the last trigger invocation
  chat            \* the state of the Chatbot component and its request in flight

vars == <<cookies, now, resp, respFresh, store, verifierReady, lam, px, lastPrompt, pool, chat>>

-----------------------------------------------------------------------------
(* Bounds *)

MaxTime == 2
MaxObjects == 3
MaxBucket == 2

-----------------------------------------------------------------------------
(* Strings *)

StartsWith(s, p) == Len(s) >= Len(p) /\ SubSeq(s, 1, Len(p)) = p

P_root         == <<"/">>
P_login        == <<"/","l","o","g","i","n">>
P_loginSlash   == <<"/","l","o","g","i","n","/">>
P_unauthorized == <<"/","u","n","a","u","t","h","o","r","i","z","e","d">>
P_signup       == <<"/","s","i","g","n","u","p">>
P_user         == <<"/","u","s","e","r">>
P_admin        == <<"/","a","d","m","i","n">>
P_adminUsers   == <<"/","a","d","m","i","n","/","u","s","e","r","s">>
P_nextStatic   == <<"/","_","n","e","x","t","/","d","a","t","a">>
P_apiLogout    == <<"/","a","p","i","/","a","u","t","h","/","l","o","g","o","u","t">>
P_apiAsk       == <<"/","a","p","i","/","c","h","a","t","b","o","t","/","a","s","k">>
P_apiStats     == <<"/","a","p","i","/","a","d","m","i","n","/","s","t","a","t","s">>

Pre_next    == <<"/","_","n","e","x","t">>
Pre_apiAuth == <<"/","a","p","i","/","a","u","t","h">>

Paths == { P_root, P_login, P_loginSlash, P_unauthorized, P_signup, P_user,
           P_admin, P_adminUsers, P_nextStatic, P_apiLogout, P_apiAsk, P_apiStats }

NoPath == << >>

-----------------------------------------------------------------------------
(* Tokens and cookies *)

RoleAbsent == "<absent>"
Roles == { RoleAbsent, "", "user", "admin", "guest" }

\* JavaScript truthiness of a role value: undefined / null and "" are falsy.
Truthy(role) == role \notin { RoleAbsent, "" }

\* A cookie value.  segs is the number of dot-separated segments (0: the empty
\* string, -1: no value at all); json says what the middle segment decodes to;
\* exp = 0 stands for an exp claim that is absent or zero (both falsy).
Tok(segs, json, sub, role, exp) ==
  [segs |-> segs, json |-> json, sub |-> sub, role |-> role, exp |-> exp]

NullValue  == Tok(-1, "garbage", "", RoleAbsent, 0)
EmptyValue == Tok(0, "garbage", "", RoleAbsent, 0)

Falsy(value) == value.segs <= 0

IdTokens(sub) ==
  { Tok(3, "object", sub, r, e) : r \in Roles, e \in 0..MaxTime }

MalformedTokens ==
  { EmptyValue,
    Tok(2, "object", "", "admin", MaxTime),
    Tok(3, "garbage", "", RoleAbsent, 0),
    Tok(3, "null", "", RoleAbsent, 0) }

Provider == "CognitoIdentityServiceProvider"

IdTokenName(user) == << Provider, "client1", user, "idToken" >>
DecoyName == << "legacy", "idToken" >>

NameIncludes(name, part) == \E i \in 1..Len(name) : name[i] = part
NameEndsWith(name, suffix) == Len(name) >= 2 /\ name[Len(name)] = suffix

Cookie(name, value) == [name |-> name, value |-> value]

-----------------------------------------------------------------------------
(* middleware.js: the Edge Gatekeeper *)

Null == [null |-> TRUE]

\* decodeJWT: null unless the token has exactly three segments and the middle
\* one decodes to JSON; JSON.parse of the text "null" yields null as well.
decodeJWT(token) ==
  IF token.segs # 3 THEN Null
  ELSE IF token.json = "garbage" THEN Null
  ELSE IF token.json = "null" THEN Null
  ELSE [null |-> FALSE, sub |-> token.sub, role |-> token.role, exp |-> token.exp]

RECURSIVE getIdTokenFromCookies(_)
getIdTokenFromCookies(jar) ==
  IF jar = << >> THEN NullValue
  ELSE IF NameIncludes(Head(jar).name, Provider) /\ NameEndsWith(Head(jar).name, "idToken")
       THEN Head(jar).value
       ELSE getIdTokenFromCookies(Tail(jar))

\* claims['custom:role'] || null
getUserRole(token) ==
  LET claims == decodeJWT(token) IN
  IF claims.null THEN RoleAbsent
  ELSE IF Truthy(claims.role) THEN claims.role ELSE RoleAbsent

\* A variant that tolerates one second of lateness.
isTokenExpiredLenient(token, currentTime) ==
  LET claims == decodeJWT(token) IN
  IF claims.null THEN TRUE
  ELSE IF claims.exp = 0 THEN TRUE
  ELSE claims.exp + 1 < currentTime

isTokenExpired(token, currentTime) ==
  LET claims == decodeJWT(token) IN
  IF claims.null THEN TRUE
  ELSE IF claims.exp = 0 THEN TRUE
  ELSE claims.exp < currentTime

\* A variant without the admin-tier test for the role user.
checkAuthorizationAnyPath(userRole, pathname) ==
  IF userRole = "admin" THEN TRUE
  ELSE IF userRole = "user" THEN TRUE
  ELSE FALSE

checkAuthorization(userRole, pathname) ==
  IF userRole = "admin" THEN TRUE
  ELSE IF userRole = "user"
       THEN (IF StartsWith(pathname, P_admin) THEN FALSE ELSE TRUE)
       ELSE FALSE

\* A variant in which the unauthorized page is not public.
publicRoutesWithoutUnauthorized == << P_login, P_root >>

publicRoutes == << P_login, P_root, P_unauthorized >>

isPublicRoute(pathname) ==
  \E i \in 1..Len(publicRoutes) :
     \/ pathname = publicRoutes[i]
     \/ StartsWith(pathname, Pre_next)
     \/ StartsWith(pathname, Pre_apiAuth)

\* The shape of every front-end response of the model.
\*   kind        "next" (the request goes on to the page), "redirect", "props"
\*   target      the redirect's path
\*   redirect    the redirect query parameter (NoPath: not set)
\*   error       the error query parameter ("": not set)
\*   role        the x-user-role header forwarded, or the role given to the page
\*   cookiesRead whether the cookie jar was consulted
Response(kind, target, redirect, error, role, cookiesRead) ==
  [kind |-> kind, target |-> target, redirect |-> redirect, error |-> error,
   role |-> role, cookiesRead |-> cookiesRead]

\* A variant that sends a token without a sufficient role back to /login.
middlewareDeniedToLogin(pathname, jar, currentTime) ==
  IF isPublicRoute(pathname)
  THEN Response("next", NoPath, NoPath, "", "", FALSE)
  ELSE
    LET idToken == getIdTokenFromCookies(jar) IN
    IF Falsy(idToken)
    THEN Response("redirect", P_login, pathname, "", "", TRUE)
    ELSE IF isTokenExpired(idToken, currentTime)
    THEN Response("redirect", P_login, pathname, "session_expired", "", TRUE)
    ELSE
      LET userRole == getUserRole(idToken) IN
      IF ~Truthy(userRole)
      THEN Response("redirect", P_login, pathname, "", "", TRUE)
      ELSE IF ~checkAuthorization(userRole, pathname)
      THEN Response("redirect", P_login, pathname, "", "", TRUE)
      ELSE Response("next", NoPath, NoPath, "", userRole, TRUE)

middleware(pathname, jar, currentTime) ==
  IF isPublicRoute(pathname)
  THEN Response("next", NoPath, NoPath, "", "", FALSE)
  ELSE
    LET idToken == getIdTokenFromCookies(jar) IN
    IF Falsy(idToken)
    THEN Response("redirect", P_login, pathname, "", "", TRUE)
    ELSE IF isTokenExpired(idToken, currentTime)
    THEN Response("redirect", P_login, pathname, "session_expired", "", TRUE)
    ELSE
      LET userRole == getUserRole(idToken) IN
      IF ~Truthy(userRole)
      THEN Response("redirect", P_unauthorized, NoPath, "", "", TRUE)
      ELSE IF ~checkAuthorization(userRole, pathname)
      THEN Response("redirect", P_unauthorized, NoPath, "", "", TRUE)
      ELSE Response("next", NoPath, NoPath, "", userRole, TRUE)

-----------------------------------------------------------------------------
(* common/amplify-config.js: the server-side policy *)

\* The names getServerSession asks the cookie store for: the client id
\* followed by the literal component LastAuthUser and the token type.
ClientId == "client1"
SessionCookieName(tokenType) == << Provider, ClientId, "LastAuthUser", tokenType >>

\* cookieStore.get(name): the position of the cookie of that name, or 0.
RECURSIVE cookieIndex(_, _)
cookieIndex(jar, name) ==
  IF jar = << >> THEN 0
  ELSE IF Head(jar).name = name THEN 1
  ELSE LET k == cookieIndex(Tail(jar), name) IN IF k = 0 THEN 0 ELSE k + 1

\* getServerSession: null unless both cookies exist.
getServerSession(jar) ==
  LET i == cookieIndex(jar, SessionCookieName("idToken"))
      a == cookieIndex(jar, SessionCookieName("accessToken"))
  IN
  IF i = 0 \/ a = 0 THEN Null
  ELSE [null |-> FALSE, idToken |-> jar[i].value, accessToken |-> jar[a].value]

\* getUserRole of the server utilities is the same code as the middleware's.
serverGetUserRole(token) ==
  LET claims == decodeJWT(token) IN
  IF claims.null THEN RoleAbsent
  ELSE IF Truthy(claims.role) THEN claims.role ELSE RoleAbsent

\* A variant that does not look at the required role.
serverCheckAuthorizationAnyTier(token, requiredRole) ==
  LET userRole == serverGetUserRole(token) IN
  IF ~Truthy(userRole) THEN FALSE
  ELSE IF userRole = "admin" THEN TRUE
  ELSE IF userRole = "user" THEN TRUE
  ELSE FALSE

serverCheckAuthorization(token, requiredRole) ==
  LET userRole == serverGetUserRole(token) IN
  IF ~Truthy(userRole) THEN FALSE
  ELSE IF userRole = "admin" THEN TRUE
  ELSE IF userRole = "user" /\ requiredRole = "user" THEN TRUE
  ELSE FALSE

-----------------------------------------------------------------------------
(* Pages-Router page loaders (getServerSideProps) *)

\* cookieKeys.find(key => key.includes(...) && key.endsWith('.idToken'))
RECURSIVE findIdTokenKey(_)
findIdTokenKey(jar) ==
  IF jar = << >> THEN 0
  ELSE IF NameIncludes(Head(jar).name, Provider) /\ NameEndsWith(Head(jar).name, "idToken")
       THEN 1
       ELSE LET k == findIdTokenKey(Tail(jar)) IN IF k = 0 THEN 0 ELSE k + 1

\* The decode inside the loaders' try block: a token that has not three
\* segments or whose payload is not JSON throws; so does reading a claim of a
\* payload that parsed to null.
loaderDecodeThrows(idToken) ==
  idToken.segs # 3 \/ idToken.json = "garbage" \/ idToken.json = "null"

\* pages user page: any truthy role is given the page.
userPageProps(jar) ==
  LET k == findIdTokenKey(jar) IN
  IF k = 0
  THEN Response("redirect", P_login, P_user, "", "", TRUE)
  ELSE
    LET idToken == jar[k].value IN
    IF loaderDecodeThrows(idToken)
    THEN Response("redirect", P_login, P_user, "session_expired", "", TRUE)
    ELSE IF ~Truthy(idToken.role)
    THEN Response("redirect", P_unauthorized, NoPath, "", "", TRUE)
    ELSE Response("props", NoPath, NoPath, "", idToken.role, TRUE)

\* pages admin page: only role === 'admin' is given the page.
adminPageProps(jar) ==
  LET k == findIdTokenKey(jar) IN
  IF k = 0
  THEN Response("redirect", P_login, P_admin, "", "", TRUE)
  ELSE
    LET idToken == jar[k].value IN
    IF loaderDecodeThrows(idToken)
    THEN Response("redirect", P_login, P_admin, "session_expired", "", TRUE)
    ELSE IF idToken.role # "admin"
    THEN Response("redirect", P_unauthorized, NoPath, "", "", TRUE)
    ELSE Response("props", NoPath, NoPath, "", idToken.role, TRUE)

-----------------------------------------------------------------------------
(* Backend functions: shared shapes *)

\* Error messages: sequences of fragments; message.includes(k) is "k is a fragment".
Includes(message, keyword) == \E i \in 1..Len(message) : message[i] = keyword

MsgNoToken       == << "No ", "authorization", " ", "token", " found" >>
MsgInvalidToken  == << "Invalid or expired ", "token" >>
MsgRoleNotFound  == << "User ", "role", " not found in ", "token" >>
MsgInvalidRole   == << "Invalid user ", "role" >>
MsgAdminRequired == << "Admin", " ", "role", " required" >>
MsgNoContent     == << "No content in ", "Bedrock", " response" >>
MsgDestructure   == << "Cannot destructure property 'question' of 'requestBody'" >>
MsgReadOfNull    == << "Cannot read properties of null" >>
MsgReadOfUndef   == << "Cannot read properties of undefined (reading 'length')" >>
\* V8's SyntaxError texts for JSON.parse
MsgUnexpectedTok == << "Unexpected ", "token", " '<', \"<html>\" is not valid JSON" >>
MsgUnexpectedEnd == << "Unexpected end of JSON input" >>
NoMsg            == << >>

\* Texts of errors the AWS SDK raises for a failed InvokeModel / ListUsers call.
SdkErrors ==
  { << "Request timed out" >>,
    << "Too many requests, please wait before trying again." >>,
    << "Too many ", "token", "s, please wait before trying again." >>,
    << "The security ", "token", " included in the request is expired" >>,
    << "User: arn:aws:sts::1:assumed-", "role", "/fn is not authorized to perform the action" >> }

\* The result of a step that may throw.
Ok(value)   == [ok |-> TRUE, value |-> value, msg |-> NoMsg]
Throw(msg)  == [ok |-> FALSE, value |-> 0, msg |-> msg]

\* A bearer credential as the verifier sees it: genuine (signature, issuer,
\* client and expiry all pass), its token_use, and its custom:role claim.
BTok(genuine, use, role) == [genuine |-> genuine, use |-> use, role |-> role]
NoTok == BTok(FALSE, "none", RoleAbsent)

BearerTokens ==
  { BTok(FALSE, "access", "admin") } \cup
  { BTok(TRUE, u, r) : u \in {"id", "access"}, r \in Roles }

QueryTokens ==
  { NoTok, BTok(FALSE, "access", "admin"),
    BTok(TRUE, "access", "user"), BTok(TRUE, "access", "admin") }

\* Request bodies of POST /chatbot/ask.
\*   kind: "undefined" (no body), "notjson", "null" (the JSON text null), "object"
\*   question: "<absent>", "<number>" (a non-string), or the question text
Body(kind, question, conversationId) ==
  [kind |-> kind, question |-> question, conversationId |-> conversationId]

Bodies ==
  { Body("undefined", "<absent>", ""), Body("notjson", "<absent>", ""),
    Body("null", "<absent>", ""), Body("object", "<absent>", ""),
    Body("object", "", ""), Body("object", "   ", ""),
    Body("object", "<number>", ""), Body("object", "What is it?", ""),
    Body("object", "What is it?", "conv-1") }

\* question.trim().length === 0 for the questions of the model
TrimmedEmpty(question) == question \in { "", "   " }

Event(auth, headerToken, queryToken, body, path, method) ==
  [auth |-> auth, headerToken |-> headerToken, queryToken |-> queryToken,
   body |-> body, path |-> path, method |-> method]

\* extractToken: the Authorization header when it starts with "Bearer ";
\* otherwise the token query parameter; otherwise it throws.
extractToken(event) ==
  IF event.auth = "bearer" THEN Ok(event.headerToken)
  ELSE IF event.queryToken # NoTok THEN Ok(event.queryToken)
  ELSE Throw(MsgNoToken)

\* CognitoJwtVerifier.create({tokenUse: 'access'}).verify(token)
jwtVerify(token) == token.genuine /\ token.use = "access"

\* validateToken: every failure, the uninitialised verifier included, is
\* rethrown as 'Invalid or expired token'.
validateToken(token, ready) ==
  IF ~ready THEN Throw(MsgInvalidToken)
  ELSE IF ~jwtVerify(token) THEN Throw(MsgInvalidToken)
  ELSE Ok(token.role)

validateRole(role) ==
  IF ~Truthy(role) THEN Throw(MsgRoleNotFound)
  ELSE IF role # "user" /\ role # "admin" THEN Throw(MsgInvalidRole)
  ELSE Ok(role)

\* A variant that accepts the roles the chatbot accepts.
validateAdminRoleOrUser(role) ==
  IF ~Truthy(role) THEN Throw(MsgRoleNotFound)
  ELSE IF role # "user" /\ role # "admin" THEN Throw(MsgAdminRequired)
  ELSE Ok(role)

validateAdminRole(role) ==
  IF ~Truthy(role) THEN Throw(MsgRoleNotFound)
  ELSE IF role # "admin" THEN Throw(MsgAdminRequired)
  ELSE Ok(role)

-----------------------------------------------------------------------------
(* chatbot/handler.js: knowledge retrieval, prompt assembly, generation *)

Doc(id, title, content) ==
  [json |-> "object", documentId |-> id, title |-> title, content |-> content]
NullDoc == [json |-> "null", documentId |-> "", title |-> "", content |-> ""]

\* A listed object: dir (the key ends with "/"), whether GetObject succeeds,
\* and what its body is: "json" (parses to doc), "null" (parses to null),
\* "corrupt" (does not parse).
Obj(dir, fetch, body, doc) == [dir |-> dir, fetch |-> fetch, body |-> body, doc |-> doc]

D1 == Doc("doc-1", "Returns", "Thirty days.")
D2 == Doc("doc-2", "Shipping", "Two days.")

Objects ==
  { Obj(TRUE, "ok", "corrupt", NullDoc),
    Obj(FALSE, "ok", "json", D1),
    Obj(FALSE, "ok", "json", D2),
    Obj(FALSE, "ok", "corrupt", NullDoc),
    Obj(FALSE, "fail", "json", D1),
    Obj(FALSE, "ok", "null", NullDoc) }

\* The for loop of retrieveKnowledgeBase with its per-object try / catch.  The
\* parsed value is pushed before the logger line reads its fields, so the
\* TypeError that line raises for a null value is caught after the push.
\* A variant that gives up at the first object it cannot fetch or parse.
RECURSIVE retrieveLoopAbort(_, _)
retrieveLoopAbort(contents, documents) ==
  IF contents = << >> THEN documents
  ELSE
    LET object == Head(contents) IN
    IF object.dir THEN retrieveLoopAbort(Tail(contents), documents)
    ELSE IF object.fetch # "ok" THEN documents
    ELSE IF object.body = "corrupt" THEN documents
    ELSE retrieveLoopAbort(Tail(contents), Append(documents, object.doc))

RECURSIVE retrieveLoop(_, _)
retrieveLoop(contents, documents) ==
  IF contents = << >> THEN documents
  ELSE
    LET object == Head(contents) IN
    IF object.dir THEN retrieveLoop(Tail(contents), documents)
    ELSE IF object.fetch # "ok" THEN retrieveLoop(Tail(contents), documents)
    ELSE IF object.body = "corrupt" THEN retrieveLoop(Tail(contents), documents)
    ELSE retrieveLoop(Tail(contents), Append(documents, object.doc))

\* listing: "ok" or "fail" (ListObjectsV2 throws): the outer catch returns [].
\* A variant that reads the objects even when the listing call failed.
retrieveKnowledgeBaseAnyway(listing, contents) ==
  IF contents = << >> THEN << >>
  ELSE retrieveLoop(contents, << >>)

retrieveKnowledgeBase(listing, contents) ==
  IF listing # "ok" THEN << >>
  ELSE IF contents = << >> THEN << >>
  ELSE retrieveLoop(contents, << >>)

\* The S3 calls retrieveKnowledgeBase makes.
retrieveEffects(listing, contents) ==
  {"S3.ListObjectsV2"} \cup
  (IF listing = "ok" /\ \E i \in 1..Len(contents) : ~contents[i].dir
   THEN {"S3.GetObject"} ELSE {})

\* constructPrompt: the prompt as its sequence of parts; reading doc.title of
\* a null document throws.
\* A variant that leaves out a document equal to the one before it.
RECURSIVE promptContextDistinct(_, _)
promptContextDistinct(documents, index) ==
  IF index > Len(documents) THEN << >>
  ELSE (IF index > 1 /\ documents[index] = documents[index - 1]
        THEN << >>
        ELSE << <<"Document", index, documents[index].title>>,
                <<"content", index, documents[index].content>> >>)
       \o promptContextDistinct(documents, index + 1)

RECURSIVE promptContext(_, _)
promptContext(documents, index) ==
  IF index > Len(documents) THEN << >>
  ELSE << <<"Document", index, documents[index].title>>,
          <<"content", index, documents[index].content>> >>
       \o promptContext(documents, index + 1)

constructPrompt(question, documents) ==
  IF \E i \in 1..Len(documents) : documents[i].json = "null"
  THEN Throw(MsgReadOfNull)
  ELSE Ok( (IF Len(documents) > 0
            THEN << <<"header", 0, "Here is relevant information from the knowledge base:">> >>
                 \o promptContext(documents, 1)
            ELSE << >>)
           \o << <<"instructions", 0, "Based on the information provided above">>,
                 <<"Question", 0, question>> >> )

\* What InvokeModel does.
\*   kind "text": a body whose content[0].text is `text` ("<undefined>": the
\*        first content block has no text field)
\*   kind "nocontent": a body without content, or with an empty content list
\*   kind "html" / "truncated" / "jsonnull": bodies JSON.parse rejects, or null
\*   kind "throws": the SDK call rejects (timeout, non-2xx) with message msg
Model(kind, text, msg) == [kind |-> kind, text |-> text, msg |-> msg]

ModelOutcomes ==
  { Model("text", "It is thirty days.", NoMsg), Model("text", "", NoMsg),
    Model("text", "<undefined>", NoMsg), Model("nocontent", "", NoMsg),
    Model("html", "", NoMsg), Model("truncated", "", NoMsg),
    Model("jsonnull", "", NoMsg) } \cup
  { Model("throws", "", m) : m \in SdkErrors }

GenerateFailed(msg) == Throw(<< "Failed to ", "generate response", ": " >> \o msg)

generateResponse(outcome) ==
  IF outcome.kind = "throws" THEN GenerateFailed(outcome.msg)
  ELSE IF outcome.kind = "html" THEN GenerateFailed(MsgUnexpectedTok)
  ELSE IF outcome.kind = "truncated" THEN GenerateFailed(MsgUnexpectedEnd)
  ELSE IF outcome.kind = "jsonnull" THEN GenerateFailed(MsgReadOfNull)
  ELSE IF outcome.kind = "nocontent" THEN GenerateFailed(MsgNoContent)
  ELSE Ok(outcome.text)

-----------------------------------------------------------------------------
(* chatbot/handler.js and the admin handler: the Lambda entry points *)

NoStats == [totalUsers |-> 0, user |-> 0, admin |-> 0]
NotCalled == Model("none", "", NoMsg)

\* What an invocation returns and does.  effects are the outbound service calls
\* made; model is the InvokeModel outcome consumed (NotCalled: none was made).
Reply(status, code, message, answer, conversationId, sources, stats, effects, model) ==
  [status |-> status, code |-> code, message |-> message, answer |-> answer,
   conversationId |-> conversationId, sources |-> sources, stats |-> stats,
   effects |-> effects, model |-> model]

ErrorReply(status, code, message, effects, model) ==
  Reply(status, code, message, "", "", << >>, NoStats, effects, model)

\* The catch block of the chatbot handler: the status is chosen by searching
\* the error's message, in this order.
chatbotCatch(msg, effects, model) ==
  IF Includes(msg, "token") \/ Includes(msg, "authorization")
  THEN ErrorReply(401, "UNAUTHORIZED", "Authentication failed", effects, model)
  ELSE IF Includes(msg, "role")
  THEN ErrorReply(403, "FORBIDDEN", "Insufficient permissions", effects, model)
  ELSE IF Includes(msg, "Bedrock") \/ Includes(msg, "generate response")
  THEN ErrorReply(503, "SERVICE_UNAVAILABLE", "AI service temporarily unavailable", effects, model)
  ELSE ErrorReply(500, "INTERNAL_ERROR", "An unexpected error occurred", effects, model)

sourcesOf(documents) ==
  [i \in 1..Len(documents) |->
     [documentName |-> documents[i].title, documentId |-> documents[i].documentId]]

\* The handler up to and including the validation of the question: token,
\* role, body.  Ok(question) when the request is admitted, else the reply.
chatbotAdmit(event, ready) ==
  LET token == extractToken(event) IN
  IF ~token.ok THEN Throw(chatbotCatch(token.msg, {}, NotCalled)) ELSE
  LET claims == validateToken(token.value, ready) IN
  IF ~claims.ok THEN Throw(chatbotCatch(claims.msg, {}, NotCalled)) ELSE
  LET userRole == validateRole(claims.value) IN
  IF ~userRole.ok THEN Throw(chatbotCatch(userRole.msg, {}, NotCalled)) ELSE
  IF event.body.kind = "notjson"
  THEN Throw(ErrorReply(400, "INVALID_REQUEST", "Invalid request body", {}, NotCalled)) ELSE
  IF event.body.kind \in {"undefined", "null"}
  THEN Throw(chatbotCatch(MsgDestructure, {}, NotCalled)) ELSE
  LET question == event.body.question IN
  IF question = "<absent>" \/ question = "<number>" \/ TrimmedEmpty(question)
  THEN Throw(ErrorReply(400, "INVALID_QUESTION",
                        "Question is required and must be a non-empty string", {}, NotCalled))
  ELSE Ok(question)

\* The rest of the handler: retrieval, prompt, generation, the 200 response.
\* A variant that gives every answer a new conversationId.
conversationIdAlwaysNew(supplied, generated) == generated

\* conversationId || `conv-${Date.now()}`: the supplied value when it is
\* truthy ("" stands for null, undefined and the empty string).
conversationIdOf(supplied, generated) ==
  IF supplied # "" THEN supplied ELSE generated

chatbotAnswer(event, question, listing, contents, outcome) ==
  LET documents == retrieveKnowledgeBase(listing, contents)
      fetched   == retrieveEffects(listing, contents)
      prompt    == constructPrompt(question, documents)
  IN
  IF ~prompt.ok THEN chatbotCatch(prompt.msg, fetched, NotCalled) ELSE
  LET answer == generateResponse(outcome)
      called == fetched \cup {"Bedrock.InvokeModel"}
  IN
  IF ~answer.ok THEN chatbotCatch(answer.msg, called, outcome) ELSE
  IF answer.value = "<undefined>" THEN chatbotCatch(MsgReadOfUndef, called, outcome) ELSE
  Reply(200, "", "", answer.value,
        conversationIdOf(event.body.conversationId, "conv-generated"),
        sourcesOf(documents), NoStats, called, outcome)

\* The user directory ListUsers reads: each user's custom:role attribute.
Directory == << "admin", "user", "user", RoleAbsent, "guest" >>

RECURSIVE countRole(_, _)
countRole(users, role) ==
  IF users = << >> THEN 0
  ELSE (IF Head(users) = role THEN 1 ELSE 0) + countRole(Tail(users), role)

\* listUsers: Model("text", ..) stands for a successful ListUsers call,
\* Model("throws", .., msg) for one the SDK rejects.
getSystemStats(listUsers) ==
  IF listUsers.kind = "throws"
  THEN Throw(<< "Failed to retrieve system statistics: " >> \o listUsers.msg)
  ELSE Ok([totalUsers |-> Len(Directory),
           user |-> countRole(Directory, "user"),
           admin |-> countRole(Directory, "admin")])

adminCatch(msg, effects) ==
  IF Includes(msg, "token") \/ Includes(msg, "authorization")
  THEN ErrorReply(401, "UNAUTHORIZED", "Authentication failed", effects, NotCalled)
  ELSE IF Includes(msg, "role") \/ Includes(msg, "Admin")
  THEN ErrorReply(403, "FORBIDDEN", "Admin role required", effects, NotCalled)
  ELSE ErrorReply(500, "INTERNAL_ERROR", "An unexpected error occurred", effects, NotCalled)

\* The admin handler up to the operation: Ok("stats") when the caller is
\* admitted to the statistics, else the reply (401 / 403 / 404).
adminAdmit(event, ready) ==
  LET token == extractToken(event) IN
  IF ~token.ok THEN Throw(adminCatch(token.msg, {})) ELSE
  LET claims == validateToken(token.value, ready) IN
  IF ~claims.ok THEN Throw(adminCatch(claims.msg, {})) ELSE
  LET userRole == validateAdminRole(claims.value) IN
  IF ~userRole.ok THEN Throw(adminCatch(userRole.msg, {})) ELSE
  IF Includes(event.path, "/stats") \/ event.method = "GET"
  THEN Ok("stats")
  ELSE Throw(ErrorReply(404, "NOT_FOUND", "Admin operation not found", {}, NotCalled))

adminStats(listUsers) ==
  LET stats == getSystemStats(listUsers) IN
  IF ~stats.ok THEN adminCatch(stats.msg, {"Cognito.ListUsers"})
  ELSE Reply(200, "", "", "", "", << >>, stats.value, {"Cognito.ListUsers"}, NotCalled)

-----------------------------------------------------------------------------
(* The Request Proxies: the Next.js API routes in front of the functions *)

\* Questions as the client may send them.  PaddedQuestion trims to the plain
\* question; LongQuestion stands for a text one character longer than the
\* chat input allows.  QuestionLength is the length of a string question.
PlainQuestion == "What is it?"
PaddedQuestion == "  What is it?  "
LongQuestion == "<501 characters>"

\* maxLength of the chat input
MaxQuestionLength == 500

QuestionLength(question) ==
  IF question = "" THEN 0
  ELSE IF question = "   " THEN 3
  ELSE IF question = PlainQuestion THEN 11
  ELSE IF question = PaddedQuestion THEN 15
  ELSE IF question = LongQuestion THEN MaxQuestionLength + 1
  ELSE 0

\* String.prototype.trim
Trim(question) ==
  IF question = "   " THEN ""
  ELSE IF question = PaddedQuestion THEN PlainQuestion
  ELSE question

ProxyBodies ==
  Bodies \cup { Body("object", PaddedQuestion, "conv-1"), Body("object", LongQuestion, "") }

\* What answers the proxy's fetch.
\*   kind   "handler" (the function's reply), "gateway" (API Gateway's own
\*          reply), "page" (an error page), "empty" (no body), "network"
\*          (fetch rejects)
\*   json   whether the content-type header says application/json
\*   parses whether the body is JSON text
\*   shape  "envelope" {error: {code, message}}, "success", "message"
\*          {message}, "html", "none"
Upstream(kind, status, json, parses, shape, code, message, errorCode) ==
  [kind |-> kind, status |-> status, json |-> json, parses |-> parses,
   shape |-> shape, code |-> code, message |-> message, errorCode |-> errorCode]

NoUpstream == Upstream("none", 0, FALSE, FALSE, "none", "", << >>, "")

\* The function's reply as API Gateway passes it on (Lambda proxy integration).
FromHandler(reply) ==
  Upstream("handler", reply.status, TRUE, TRUE,
           IF reply.status = 200 THEN "success" ELSE "envelope",
           reply.code, << reply.message >>, "")

\* Replies that do not come from the function.
OtherUpstreams ==
  { Upstream("gateway", 403, TRUE, TRUE, "message", "", << "Missing Authentication Token" >>, ""),
    Upstream("gateway", 429, TRUE, TRUE, "message", "", << "Too Many Requests" >>, ""),
    Upstream("gateway", 504, TRUE, TRUE, "message", "", << "Endpoint request timed out" >>, ""),
    Upstream("page", 502, FALSE, FALSE, "html", "", << "<html>Bad Gateway</html>" >>, ""),
    Upstream("page", 200, FALSE, FALSE, "html", "", << "<html>Sign in</html>" >>, ""),
    Upstream("empty", 500, TRUE, FALSE, "none", "", << >>, ""),
    Upstream("network", 0, FALSE, FALSE, "none", "", << "fetch", " failed" >>, ""),
    Upstream("network", 0, FALSE, FALSE, "none", "", << "connect refused" >>, "ECONNREFUSED") }

MsgNoEndpoint == << "API Gateway ", "endpoint not configured" >>
MsgDestructureBody == << "Cannot destructure property 'question' of 'body' as it is null." >>

\* What the proxy returns to the client, and whether it called out.
ProxyReply(status, shape, code, message, called) ==
  [status |-> status, shape |-> shape, code |-> code, message |-> message,
   called |-> called]

ProxyError(status, code, message, called) ==
  ProxyReply(status, "envelope", code, << message >>, called)

\* The catch block of the chatbot proxies.
chatbotProxyCatch(msg, errorCode, called) ==
  IF Includes(msg, "endpoint not configured")
  THEN ProxyError(503, "CONFIGURATION_ERROR",
                  "API endpoint not configured. Please deploy the backend first.", called)
  ELSE IF Includes(msg, "fetch") \/ errorCode = "ECONNREFUSED"
  THEN ProxyError(503, "SERVICE_UNAVAILABLE", "Unable to connect to chatbot service", called)
  ELSE ProxyError(500, "INTERNAL_ERROR", "An unexpected error occurred", called)

ProxyUnauthorized == ProxyError(401, "UNAUTHORIZED", "Authentication required", FALSE)

\* Steps 2 and 3 of both chatbot proxies: the body, the question, the
\* endpoint.  Ok(body to forward) or the reply.
\* A variant that tests the question before trimming it.
proxyValidateUntrimmed(body, endpoint) ==
  IF body.kind \in {"undefined", "notjson"}
  THEN Throw(ProxyError(400, "INVALID_REQUEST", "Invalid request body", FALSE)) ELSE
  IF body.kind = "null"
  THEN Throw(chatbotProxyCatch(MsgDestructureBody, "", FALSE)) ELSE
  LET question == body.question IN
  IF question = "<absent>" \/ question = "<number>" \/ question = ""
  THEN Throw(ProxyError(400, "INVALID_QUESTION",
                        "Question is required and must be a non-empty string", FALSE)) ELSE
  IF ~endpoint THEN Throw(chatbotProxyCatch(MsgNoEndpoint, "", FALSE))
  ELSE Ok(Body("object", Trim(question), body.conversationId))

proxyValidate(body, endpoint) ==
  IF body.kind \in {"undefined", "notjson"}
  THEN Throw(ProxyError(400, "INVALID_REQUEST", "Invalid request body", FALSE)) ELSE
  IF body.kind = "null"
  THEN Throw(chatbotProxyCatch(MsgDestructureBody, "", FALSE)) ELSE
  LET question == body.question IN
  IF question = "<absent>" \/ question = "<number>" \/ TrimmedEmpty(question)
  THEN Throw(ProxyError(400, "INVALID_QUESTION",
                        "Question is required and must be a non-empty string", FALSE)) ELSE
  IF ~endpoint THEN Throw(chatbotProxyCatch(MsgNoEndpoint, "", FALSE))
  ELSE Ok(Body("object", Trim(question), body.conversationId))

\* The proxy that takes the ID token from the session (NoTok: no session).
sessionProxyAdmit(session, body, endpoint) ==
  IF session = NoTok THEN Throw(ProxyUnauthorized)
  ELSE proxyValidate(body, endpoint)

\* The proxy that takes the token from the request's Authorization header.
bearerProxyAdmit(auth, body, endpoint) ==
  IF auth # "bearer" THEN Throw(ProxyUnauthorized)
  ELSE proxyValidate(body, endpoint)

\* Steps 5 and 6 of the session proxy: lambdaResponse.json() is read first.
sessionProxyDeliver(upstream) ==
  IF upstream.kind = "network"
  THEN chatbotProxyCatch(upstream.message, upstream.errorCode, TRUE)
  ELSE IF ~upstream.parses
  THEN chatbotProxyCatch(IF upstream.shape = "html" THEN MsgUnexpectedTok ELSE MsgUnexpectedEnd,
                         "", TRUE)
  ELSE IF upstream.status \notin 200..299
  THEN ProxyReply(upstream.status, upstream.shape, upstream.code, upstream.message, TRUE)
  ELSE ProxyReply(200, upstream.shape, upstream.code, upstream.message, TRUE)

\* Steps 5 and 6 of the bearer proxy: the content-type is looked at first.
bearerProxyDeliver(upstream) ==
  IF upstream.kind = "network"
  THEN chatbotProxyCatch(upstream.message, upstream.errorCode, TRUE)
  ELSE IF ~upstream.json
  THEN ProxyError(502, "GATEWAY_ERROR",
                  "API Gateway returned an invalid response. Check authentication configuration.",
                  TRUE)
  ELSE IF ~upstream.parses
  THEN chatbotProxyCatch(MsgUnexpectedEnd, "", TRUE)
  ELSE IF upstream.status \notin 200..299
  THEN ProxyReply(upstream.status, upstream.shape, upstream.code, upstream.message, TRUE)
  ELSE ProxyReply(200, upstream.shape, upstream.code, upstream.message, TRUE)

-----------------------------------------------------------------------------
(* GET /api/admin/stats: the proxy in front of the admin function *)

adminProxyCatch(msg, errorCode, called) ==
  IF Includes(msg, "endpoint not configured")
  THEN ProxyError(503, "CONFIGURATION_ERROR",
                  "API endpoint not configured. Please deploy the backend first.", called)
  ELSE IF Includes(msg, "fetch") \/ errorCode = "ECONNREFUSED"
  THEN ProxyError(503, "SERVICE_UNAVAILABLE", "Unable to connect to admin service", called)
  ELSE ProxyError(500, "INTERNAL_ERROR", "An unexpected error occurred", called)

\* A variant that lets every recognised role through.
adminProxyAdmitAnyRole(session, endpoint) ==
  IF session = NoTok THEN Throw(ProxyUnauthorized) ELSE
  IF session.role \notin { "user", "admin" }
  THEN Throw(ProxyError(403, "FORBIDDEN", "Admin role required", FALSE)) ELSE
  IF ~endpoint THEN Throw(adminProxyCatch(MsgNoEndpoint, "", FALSE))
  ELSE Ok(session)

\* Steps 1 to 3: the session, the role read from its ID token, the endpoint.
\* Ok(the token to forward) or the reply.
adminProxyAdmit(session, endpoint) ==
  IF session = NoTok THEN Throw(ProxyUnauthorized) ELSE
  IF session.role # "admin"
  THEN Throw(ProxyError(403, "FORBIDDEN", "Admin role required", FALSE)) ELSE
  IF ~endpoint THEN Throw(adminProxyCatch(MsgNoEndpoint, "", FALSE))
  ELSE Ok(session)

\* Steps 5 and 6: lambdaResponse.json() is read first.
adminProxyDeliver(upstream) ==
  IF upstream.kind = "network"
  THEN adminProxyCatch(upstream.message, upstream.errorCode, TRUE)
  ELSE IF ~upstream.parses
  THEN adminProxyCatch(IF upstream.shape = "html" THEN MsgUnexpectedTok ELSE MsgUnexpectedEnd,
                       "", TRUE)
  ELSE IF upstream.status \notin 200..299
  THEN ProxyReply(upstream.status, upstream.shape, upstream.code, upstream.message, TRUE)
  ELSE ProxyReply(200, upstream.shape, upstream.code, upstream.message, TRUE)

-----------------------------------------------------------------------------

(* State machine *)

IdleResp ==
  [op |-> "none", path |-> NoPath, token |-> NullValue, required |-> "", prev |-> "none"]
  @@ Response("none", NoPath, NoPath, "", "", FALSE)

NoBody == Body("undefined", "<absent>", "")
NoEvent == Event("none", NoTok, NoTok, NoBody, << >>, "")

IdleLam ==
  [fn |-> "none", event |-> NoEvent, listing |-> "n/a", documents |-> << >>]
  @@ ErrorReply(0, "", "", {}, NotCalled)

PxOf(fn, token, body, upstream, reply) ==
  [fn |-> fn, token |-> token, body |-> body, upstream |-> upstream] @@ reply

IdlePx == PxOf("none", NoTok, NoBody, NoUpstream, ProxyReply(0, "none", "", << >>, FALSE))

NoPrompt == Ok(<< >>)

-----------------------------------------------------------------------------
(* The user pool and its post-confirmation trigger *)

UserPoolId == "pool-1"
UserNames == { "alice", "bob" }

\* An account of the pool: absent, signed up but unconfirmed, or confirmed,
\* with the value of its custom:role attribute.
Account(status, role) == [status |-> status, role |-> role]
NoAccount == Account("absent", RoleAbsent)

\* The trigger is attached to the pool's post-confirmation hook, which the
\* pool invokes after a confirmed sign-up and, with account recovery enabled,
\* after a confirmed password reset.
TriggerSources ==
  { "PostConfirmation_ConfirmSignUp", "PostConfirmation_ConfirmForgotPassword" }

TriggerEvent(userPoolId, userName, triggerSource) ==
  [userPoolId |-> userPoolId, userName |-> userName, triggerSource |-> triggerSource]

NoTrigger == TriggerEvent("", "", "")

\* AdminUpdateUserAttributesCommand as the handler builds it.
UpdateRoleCommand(userPoolId, userName) ==
  [UserPoolId |-> userPoolId, Username |-> userName,
   Name |-> "custom:role", Value |-> "user"]

NoCommand == [UserPoolId |-> "", Username |-> "", Name |-> "", Value |-> ""]

\* cognitoClient.send(command): the attribute is written when the service
\* accepts the call; a rejected call (no permission, throttling, unknown
\* user or pool) writes nothing and throws.
sendAccepted(accounts, command, granted) ==
  /\ granted
  /\ command.UserPoolId = UserPoolId
  /\ command.Username \in DOMAIN accounts
  /\ accounts[command.Username].status # "absent"

send(accounts, command, granted) ==
  IF sendAccepted(accounts, command, granted)
  THEN [accounts EXCEPT ![command.Username].role = command.Value]
  ELSE accounts

\* What one invocation did: the command it sent (if any), whether it threw
\* inside the try block, and the accounts afterwards.  The handler returns
\* the event on every path.
Invocation(event, command, sent, threw, accounts) ==
  [event |-> event, command |-> command, sent |-> sent, threw |-> threw,
   accounts |-> accounts, returned |-> event]

\* post-confirmation/handler.js: builds and sends the command for every event.
postConfirmation(accounts, event, granted) ==
  LET command == UpdateRoleCommand(event.userPoolId, event.userName)
  IN Invocation(event, command, TRUE,
                ~sendAccepted(accounts, command, granted),
                send(accounts, command, granted))

\* The deployed copy of the handler returns early when a field is missing.
postConfirmationChecked(accounts, event, granted) ==
  IF event.userPoolId = "" \/ event.userName = ""
  THEN Invocation(event, NoCommand, FALSE, FALSE, accounts)
  ELSE postConfirmation(accounts, event, granted)

PoolOf(accounts, before, last) ==
  [accounts |-> accounts, before |-> before, last |-> last]

EmptyPool ==
  LET none == [u \in UserNames |-> NoAccount]
  IN PoolOf(none, none, Invocation(NoTrigger, NoCommand, FALSE, FALSE, none))

-----------------------------------------------------------------------------
(* components/Chatbot.js: the chat client *)

MaxMessages == 6

Message(type, content) == [type |-> type, content |-> content]

ErrorContent == "Sorry, I encountered an error processing your question. Please try again."

\* The request handleSubmit has in flight.  direct: the copy of the component
\* that calls API Gateway itself with the ID token, else the one that calls
\* the application's own /api/chatbot/ask.
ChatRequest(question, conversationId, direct) ==
  [question |-> question, conversationId |-> conversationId, direct |-> direct]

NoRequest == ChatRequest("", "", FALSE)

\* What the awaited part of handleSubmit meets.
\*   kind  "success" (ok, JSON), "error" (not ok, JSON with error.message),
\*         "errorOther" (not ok, JSON without error.message), "errorHtml"
\*         (not ok, not JSON), "successHtml" (ok, not JSON), "network" (fetch
\*         rejects), "noToken" / "noEndpoint" (direct copy: thrown before fetch)
ChatResponse(kind, status, answer, conversationId, message) ==
  [kind |-> kind, status |-> status, answer |-> answer,
   conversationId |-> conversationId, message |-> message]

\* The component's state (useState), the request in flight, and two history
\* values: firstId, the conversationId of the first successful answer since
\* the chat was last empty, and sentId, the one sent with the last question.
ChatOf(messages, question, isLoading, error, conversationId, request, firstId, sentId) ==
  [messages |-> messages, question |-> question, isLoading |-> isLoading,
   error |-> error, conversationId |-> conversationId, request |-> request,
   firstId |-> firstId, sentId |-> sentId]

IdleChat == ChatOf(<< >>, "", FALSE, "", "", NoRequest, "", "")

\* handleInputChange
handleInputChange(c, value) == [c EXCEPT !.question = value, !.error = ""]

\* handleSubmit up to its first await.
handleSubmit(c, direct) ==
  IF TrimmedEmpty(c.question) THEN c
  ELSE [c EXCEPT !.error = "",
                 !.messages = Append(@, Message("user", Trim(c.question))),
                 !.question = "",
                 !.isLoading = TRUE,
                 !.request = ChatRequest(Trim(c.question), c.conversationId, direct),
                 !.sentId = c.conversationId]

\* The message of the Error the try block throws for a response.
chatErrorMessage(response, direct) ==
  CASE response.kind = "error" -> response.message
    [] response.kind = "errorOther" -> "Request failed with status"
    [] response.kind = "errorHtml" ->
         IF direct THEN "Body has already been read" ELSE "Request failed with status"
    [] response.kind = "successHtml" -> "Unexpected token '<'"
    [] response.kind = "network" -> "Failed to fetch"
    [] response.kind = "noToken" -> "No authentication token available. Please log in again."
    [] OTHER -> "API endpoint not configured"

\* A variant whose catch block shows the banner and adds no message.
handleResponseBannerOnly(c, response) ==
  IF response.kind = "success"
  THEN [c EXCEPT !.conversationId = IF response.conversationId # ""
                                    THEN response.conversationId ELSE @,
                 !.firstId = IF @ = "" THEN response.conversationId ELSE @,
                 !.messages = Append(@, Message("ai", response.answer)),
                 !.isLoading = FALSE,
                 !.request = NoRequest]
  ELSE [c EXCEPT !.error = chatErrorMessage(response, c.request.direct),
                 !.isLoading = FALSE,
                 !.request = NoRequest]

\* handleSubmit after the await: the success path, the catch block, finally.
handleResponse(c, response) ==
  IF response.kind = "success"
  THEN [c EXCEPT !.conversationId = IF response.conversationId # ""
                                    THEN response.conversationId ELSE @,
                 !.firstId = IF @ = "" THEN response.conversationId ELSE @,
                 !.messages = Append(@, Message("ai", response.answer)),
                 !.isLoading = FALSE,
                 !.request = NoRequest]
  ELSE [c EXCEPT !.error = chatErrorMessage(response, c.request.direct),
                 !.messages = Append(@, Message("error", ErrorContent)),
                 !.isLoading = FALSE,
                 !.request = NoRequest]

\* handleClearChat
handleClearChat(c) ==
  [c EXCEPT !.messages = << >>, !.conversationId = "", !.error = "",
            !.firstId = "", !.sentId = ""]

\* The deployed application: both functions are given USER_POOL_ID and CLIENT_ID.
Init ==
  /\ cookies = << >>
  /\ now = 0
  /\ resp = IdleResp
  /\ respFresh = FALSE
  /\ store = << >>
  /\ verifierReady = TRUE
  /\ lam = IdleLam
  /\ px = IdlePx
  /\ lastPrompt = NoPrompt
  /\ pool = EmptyPool
  /\ chat = IdleChat

\* A function's module load: jwtVerifier exists only if both variables are set.
InitBackend ==
  /\ cookies = << >>
  /\ now = 0
  /\ resp = IdleResp
  /\ respFresh = FALSE
  /\ store = << >>
  /\ verifierReady \in BOOLEAN
  /\ lam = IdleLam
  /\ px = IdlePx
  /\ lastPrompt = NoPrompt
  /\ pool = EmptyPool
  /\ chat = IdleChat

BackendUnchanged == UNCHANGED <<store, verifierReady, lam, px, lastPrompt, pool, chat>>
FrontUnchanged == UNCHANGED <<cookies, now, resp, respFresh, px, lastPrompt, pool, chat>>

(* The browser and the clock *)

GateCookies ==
  { Cookie(IdTokenName("alice"), t) : t \in IdTokens("alice") \cup MalformedTokens }
  \cup { Cookie(IdTokenName("bob"), Tok(3, "object", "bob", "admin", MaxTime)),
         Cookie(DecoyName, Tok(3, "object", "mallory", "admin", MaxTime)) }

HasCookie(jar, name) == \E i \in 1..Len(jar) : jar[i].name = name

\* A cookie set by the browser replaces the one of the same name in place,
\* and is added at the end of the jar otherwise.
SetCookieIn(jar, c) ==
  IF HasCookie(jar, c.name)
  THEN [i \in 1..Len(jar) |-> IF jar[i].name = c.name THEN c ELSE jar[i]]
  ELSE Append(jar, c)

RemoveAt(jar, i) == SubSeq(jar, 1, i - 1) \o SubSeq(jar, i + 1, Len(jar))

StoreCookie ==
  /\ \E c \in GateCookies : cookies' = SetCookieIn(cookies, c)
  /\ respFresh' = FALSE
  /\ UNCHANGED <<now, resp>>
  /\ BackendUnchanged

DeleteCookie ==
  /\ \E i \in 1..Len(cookies) : cookies' = RemoveAt(cookies, i)
  /\ respFresh' = FALSE
  /\ UNCHANGED <<now, resp>>
  /\ BackendUnchanged

Tick ==
  /\ now < MaxTime
  /\ now' = now + 1
  /\ respFresh' = FALSE
  /\ UNCHANGED <<cookies, resp>>
  /\ BackendUnchanged

(* One request through the Gatekeeper *)

\* prev: what the previous Gatekeeper response for the same path was ("none":
\* the previous operation was not a Gatekeeper request for this path).
GateResp(op, path, prev, r) ==
  [op |-> op, path |-> path, token |-> NullValue, required |-> "", prev |-> prev] @@ r

PrevKind(p) == IF resp.op = "middleware" /\ resp.path = p THEN resp.kind ELSE "none"

\* A variant that answers from the previous decision for the same path.
GatekeeperRequestCached ==
  /\ \E p \in Paths :
       resp' = IF resp.op = "middleware" /\ resp.path = p
               THEN [resp EXCEPT !.prev = resp.kind]
               ELSE GateResp("middleware", p, PrevKind(p), middleware(p, cookies, now))
  /\ respFresh' = TRUE
  /\ UNCHANGED <<cookies, now>>
  /\ BackendUnchanged

GatekeeperRequest ==
  /\ \E p \in Paths :
       resp' = GateResp("middleware", p, PrevKind(p), middleware(p, cookies, now))
  /\ respFresh' = TRUE
  /\ UNCHANGED <<cookies, now>>
  /\ BackendUnchanged

(* The page loaders, each run on its own *)

UserPageLoad ==
  /\ resp' = GateResp("userPage", P_user, "none", userPageProps(cookies))
  /\ respFresh' = TRUE
  /\ UNCHANGED <<cookies, now>>
  /\ BackendUnchanged

AdminPageLoad ==
  /\ resp' = GateResp("adminPage", P_admin, "none", adminPageProps(cookies))
  /\ respFresh' = TRUE
  /\ UNCHANGED <<cookies, now>>
  /\ BackendUnchanged

NextGate ==
  \/ StoreCookie \/ DeleteCookie \/ Tick
  \/ GatekeeperRequest \/ UserPageLoad \/ AdminPageLoad

SpecGate == Init /\ [][NextGate]_vars

(* The two authorization policies applied to chosen arguments *)

Decision(allowed) == IF allowed THEN "allow" ELSE "deny"

EdgePolicyCall ==
  /\ \E role \in Roles, p \in Paths :
       resp' = [op |-> "edgePolicy", path |-> p, token |-> NullValue, required |-> "",
                prev |-> "none"]
               @@ Response(Decision(checkAuthorization(role, p)), NoPath, NoPath, "", role, FALSE)
  /\ respFresh' = TRUE
  /\ UNCHANGED <<cookies, now>>
  /\ BackendUnchanged

ServerPolicyCall ==
  /\ \E t \in IdTokens("alice") \cup IdTokens("bob") \cup MalformedTokens,
        required \in {"user", "admin"} :
       resp' = [op |-> "serverPolicy", path |-> NoPath, token |-> t, required |-> required,
                prev |-> "none"]
               @@ Response(Decision(serverCheckAuthorization(t, required)), NoPath, NoPath, "", "", FALSE)
  /\ respFresh' = TRUE
  /\ UNCHANGED <<cookies, now>>
  /\ BackendUnchanged

NextPolicy == EdgePolicyCall \/ ServerPolicyCall

SpecPolicy == Init /\ [][NextPolicy]_vars

(* The bucket and the Lambda invocations *)

\* An object is uploaded under knowledge-base/ (listings are in key order;
\* the new key sorts last).
Upload(limit) ==
  /\ lam.fn = "none"
  /\ Len(store) < limit
  /\ \E o \in Objects : store' = Append(store, o)
  /\ UNCHANGED <<verifierReady, lam>>
  /\ FrontUnchanged

PutObject == Upload(MaxBucket)

ChatPath == << "/chatbot", "/ask" >>
AdminPaths == { << "/admin", "/stats" >>, << "/admin", "/users" >> }

ChatEvents ==
  { Event(a, NoTok, q, b, ChatPath, "POST") :
      a \in {"none", "basic"}, q \in QueryTokens, b \in Bodies }
  \cup
  { Event("bearer", h, q, b, ChatPath, "POST") :
      h \in BearerTokens, q \in {NoTok, BTok(TRUE, "access", "admin")}, b \in Bodies }

AdminEvents ==
  { Event(a, NoTok, q, NoBody, p, m) :
      a \in {"none", "basic"}, q \in QueryTokens, p \in AdminPaths, m \in {"GET", "POST"} }
  \cup
  { Event("bearer", h, q, NoBody, p, m) :
      h \in BearerTokens, q \in {NoTok, BTok(TRUE, "access", "admin")},
      p \in AdminPaths, m \in {"GET", "POST"} }

ListUsersOutcomes ==
  { Model("text", "", NoMsg) } \cup { Model("throws", "", m) : m \in SdkErrors }

LamOf(fn, event, listing, documents, reply) ==
  [fn |-> fn, event |-> event, listing |-> listing, documents |-> documents] @@ reply

\* One invocation of the chatbot function.  The outcomes of the S3 and
\* Bedrock calls are drawn only when the handler gets as far as making them.
InvokeChatbot ==
  /\ lam.fn = "none"
  /\ \E e \in ChatEvents :
       LET admitted == chatbotAdmit(e, verifierReady) IN
       IF ~admitted.ok
       THEN lam' = LamOf("chatbot", e, "n/a", << >>, admitted.msg)
       ELSE \E listing \in {"ok", "fail"}, outcome \in ModelOutcomes :
              lam' = LamOf("chatbot", e, listing, retrieveKnowledgeBase(listing, store),
                           chatbotAnswer(e, admitted.value, listing, store, outcome))
  /\ UNCHANGED <<store, verifierReady>>
  /\ FrontUnchanged

InvokeAdmin ==
  /\ lam.fn = "none"
  /\ \E e \in AdminEvents :
       LET admitted == adminAdmit(e, verifierReady) IN
       IF ~admitted.ok
       THEN lam' = LamOf("admin", e, "n/a", << >>, admitted.msg)
       ELSE \E listUsers \in ListUsersOutcomes :
              lam' = LamOf("admin", e, "n/a", << >>, adminStats(listUsers))
  /\ UNCHANGED <<store, verifierReady>>
  /\ FrontUnchanged

\* The invocation has returned; the execution environment is idle again.
LambdaReturn ==
  /\ lam.fn # "none"
  /\ lam' = IdleLam
  /\ UNCHANGED <<store, verifierReady>>
  /\ FrontUnchanged

NextBackend == PutObject \/ InvokeChatbot \/ InvokeAdmin \/ LambdaReturn

SpecBackend == InitBackend /\ [][NextBackend]_vars

(* retrieveKnowledgeBase applied to a bucket *)

PutDocument == Upload(MaxObjects)

RetrieveDocuments ==
  /\ lam.fn = "none"
  /\ \E listing \in {"ok", "fail"} :
       lam' = LamOf("retrieve", NoEvent, listing, retrieveKnowledgeBase(listing, store),
                    ErrorReply(0, "", "", retrieveEffects(listing, store), NotCalled))
  /\ UNCHANGED <<store, verifierReady>>
  /\ FrontUnchanged

NextRetrieve == PutDocument \/ RetrieveDocuments \/ LambdaReturn

SpecRetrieve == Init /\ [][NextRetrieve]_vars


-----------------------------------------------------------------------------
(* Properties of the Gatekeeper and the policies *)

IsIdTokenCookie(c) == NameIncludes(c.name, Provider) /\ NameEndsWith(c.name, "idToken")

IdTokenPositions == { i \in 1..Len(cookies) : IsIdTokenCookie(cookies[i]) }

\* The idToken of the request: the first idToken cookie of the Cookie header.
FirstIdTokenPosition ==
  CHOOSE i \in IdTokenPositions : \A j \in IdTokenPositions : i <= j

PayloadDecodes(t) == t.segs = 3 /\ t.json = "object"

AdminTier(path) == StartsWith(path, P_admin)

GateAnswered == resp.op = "middleware" /\ respFresh

ToLogin(error) ==
  /\ resp.kind = "redirect"
  /\ resp.target = P_login
  /\ resp.redirect = resp.path
  /\ resp.error = error

ToUnauthorized == resp.kind = "redirect" /\ resp.target = P_unauthorized

\* C1: a request to a protected route passes the Gatekeeper only if it carries
\* an idToken cookie whose payload decodes, whose exp is present and not
\* earlier than the current time, and whose role is admin, or user on a route
\* outside the admin tier; every other request to a protected route is
\* redirected.
C1_PassOnlyWithValidRole ==
  (GateAnswered /\ ~isPublicRoute(resp.path)) =>
     /\ resp.kind \in {"next", "redirect"}
     /\ resp.kind = "next" =>
          \E i \in IdTokenPositions :
             LET t == cookies[i].value IN
             /\ PayloadDecodes(t)
             /\ t.exp # 0 /\ t.exp >= now
             /\ \/ t.role = "admin"
                \/ t.role = "user" /\ ~AdminTier(resp.path)
     /\ resp.kind = "redirect" => resp.target \in {P_login, P_unauthorized}

C1_Witness ==
  /\ GateAnswered
  /\ resp.path = P_adminUsers
  /\ resp.kind = "next"
  /\ \E i \in IdTokenPositions : cookies[i].value.role = "admin"

\* C2: when no idToken cookie of the request has the role user or admin (the
\* role claim is absent or unrecognized), each front-end enforcement point
\* on its own refuses the role-gated page.
C2_UnrecognizedRoleDenied ==
  ( /\ respFresh
    /\ resp.op \in {"middleware", "userPage", "adminPage"}
    /\ ~isPublicRoute(resp.path)
    /\ \A i \in IdTokenPositions : cookies[i].value.role \notin {"user", "admin"} )
  => resp.kind = "redirect"

\* The user page loader gives the page to a token whose role is guest.
C2_Witness ==
  /\ respFresh
  /\ resp.op = "userPage"
  /\ resp.kind = "props"
  /\ \A i \in IdTokenPositions : cookies[i].value.role = "guest"

\* C3: both policies allow (admin, user tier), (admin, admin tier) and (user,
\* user tier), deny (user, admin tier), and answer allow or deny for every
\* argument.
C3_PolicyTable ==
  /\ resp.op = "edgePolicy" =>
       /\ resp.kind \in {"allow", "deny"}
       /\ resp.role = "admin" => resp.kind = "allow"
       /\ resp.role = "user" => (resp.kind = "allow" <=> ~AdminTier(resp.path))
  /\ resp.op = "serverPolicy" =>
       /\ resp.kind \in {"allow", "deny"}
       /\ (PayloadDecodes(resp.token) /\ resp.token.role = "admin") => resp.kind = "allow"
       /\ (PayloadDecodes(resp.token) /\ resp.token.role = "user") =>
             (resp.kind = "allow" <=> resp.required = "user")

C3_Witness ==
  /\ resp.op = "serverPolicy"
  /\ PayloadDecodes(resp.token) /\ resp.token.role = "user"
  /\ resp.required = "admin"
  /\ resp.kind = "deny"

\* C4: a request to a protected route whose idToken has an exp earlier than
\* the current time is redirected to /login with redirect=<path> and
\* error=session_expired, whatever its role claim is.
C4_ExpiredGoesToLogin ==
  ( /\ GateAnswered
    /\ ~isPublicRoute(resp.path)
    /\ IdTokenPositions # {}
    /\ PayloadDecodes(cookies[FirstIdTokenPosition].value)
    /\ cookies[FirstIdTokenPosition].value.exp < now )
  => ToLogin("session_expired")

C4_Witness ==
  /\ GateAnswered
  /\ resp.path = P_admin
  /\ IdTokenPositions # {}
  /\ PayloadDecodes(cookies[FirstIdTokenPosition].value)
  /\ cookies[FirstIdTokenPosition].value.role = "admin"
  /\ cookies[FirstIdTokenPosition].value.exp # 0
  /\ cookies[FirstIdTokenPosition].value.exp < now
  /\ ToLogin("session_expired")

\* C5: on a protected route, no idToken cookie gives a redirect to /login
\* with redirect=<path> and no error; an unexpired token whose role is absent
\* or insufficient gives a redirect to /unauthorized; a public route passes
\* without the cookies being read.
C5_RedirectTargets ==
  GateAnswered =>
     /\ (~isPublicRoute(resp.path) /\ IdTokenPositions = {}) => ToLogin("")
     /\ ( /\ ~isPublicRoute(resp.path)
          /\ IdTokenPositions # {}
          /\ LET t == cookies[FirstIdTokenPosition].value IN
             /\ PayloadDecodes(t)
             /\ t.exp # 0 /\ t.exp >= now
             /\ \/ t.role \notin {"user", "admin"}
                \/ t.role = "user" /\ AdminTier(resp.path) )
        => ToUnauthorized
     /\ isPublicRoute(resp.path) => (resp.kind = "next" /\ ~resp.cookiesRead)

C5_Witness ==
  /\ GateAnswered
  /\ resp.path = P_admin
  /\ IdTokenPositions # {}
  /\ cookies[FirstIdTokenPosition].value.role = "user"
  /\ ToUnauthorized

\* C6: the Gatekeeper's answer is the one the decision chain gives for the
\* request's path, the cookies as they are now and the current time, whatever
\* was answered to earlier requests.
C6_DecisionFromCurrentRequest ==
  (GateAnswered /\ ~isPublicRoute(resp.path)) =>
     IF IdTokenPositions = {} THEN ToLogin("")
     ELSE
       LET t == cookies[FirstIdTokenPosition].value IN
       IF t.segs = 0 THEN ToLogin("")
       ELSE IF ~PayloadDecodes(t) \/ t.exp = 0 \/ t.exp < now THEN ToLogin("session_expired")
       ELSE IF t.role \notin {"user", "admin"} THEN ToUnauthorized
       ELSE IF t.role = "user" /\ AdminTier(resp.path) THEN ToUnauthorized
       ELSE resp.kind = "next" /\ resp.role = t.role

\* An earlier request for the same path was passed; this one is refused.
C6_Witness ==
  /\ GateAnswered
  /\ resp.path = P_user
  /\ resp.prev = "next"
  /\ resp.kind = "redirect"

-----------------------------------------------------------------------------
(* Properties of the backend handlers *)

Invoked == lam.fn \in {"chatbot", "admin"}

\* The token the handler verifies: the header's when the Authorization header
\* is a Bearer one, else the query string's.
PresentedToken ==
  IF lam.event.auth = "bearer" THEN lam.event.headerToken ELSE lam.event.queryToken

Verified == verifierReady /\ PresentedToken.genuine /\ PresentedToken.use = "access"

\* C7: a request to the chatbot or admin handler that has no Authorization
\* header is answered 401, whatever its query string and body are, and no
\* S3, Bedrock or Cognito call is made for it.
C7_NoHeaderRejected ==
  (Invoked /\ lam.event.auth = "none") => (lam.status = 401 /\ lam.effects = {})

\* A request without the header is served the statistics.
C7_Witness ==
  /\ lam.fn = "admin"
  /\ lam.event.auth = "none"
  /\ lam.status = 200
  /\ "Cognito.ListUsers" \in lam.effects

\* C8: the admin handler answers 403 FORBIDDEN to a verified token whose role
\* is user, and calls ListUsers only for a verified token whose role is
\* exactly admin.
C8_AdminOnlyStats ==
  lam.fn = "admin" =>
     /\ (Verified /\ PresentedToken.role = "user") =>
           (lam.status = 403 /\ lam.code = "FORBIDDEN" /\ lam.effects = {})
     /\ ("Cognito.ListUsers" \in lam.effects \/ lam.status = 200) =>
           (Verified /\ PresentedToken.role = "admin")

C8_Witness ==
  /\ lam.fn = "admin"
  /\ lam.event.auth = "bearer"
  /\ lam.event.path = << "/admin", "/stats" >>
  /\ lam.event.method = "GET"
  /\ Verified /\ PresentedToken.role = "user"
  /\ lam.status = 403

ModelCallFailed ==
  lam.fn = "chatbot" /\ lam.model.kind \in {"throws", "html", "truncated", "jsonnull", "nocontent"}

\* C9: every failure of the model call (the SDK throws, the body is not JSON,
\* the body has no content) is answered 503, whatever the error's text is.
C9_ModelFailureIs503 == ModelCallFailed => lam.status = 503

\* A model-call failure answered with an authentication or permission status.
C9_Witness == ModelCallFailed /\ lam.status \in {401, 403}

Retrievable(object) == ~object.dir /\ object.fetch = "ok" /\ object.body # "corrupt"

Retrieved ==
  LET kept == SelectSeq(store, Retrievable) IN [i \in 1..Len(kept) |-> kept[i].doc]

\* C10: retrieveKnowledgeBase returns a list and never throws: the parsed
\* values of exactly the listed objects that were fetched and parsed, in
\* listing order; the empty list when the listing itself fails.
C10_RetrievalKeepsGoodDocuments ==
  lam.fn = "retrieve" =>
     /\ lam.documents \in Seq({D1, D2, NullDoc})
     /\ lam.listing = "ok" => lam.documents = Retrieved
     /\ lam.listing # "ok" => lam.documents = << >>

\* An unreadable object stands between two documents, and both are returned.
C10_Witness ==
  /\ lam.fn = "retrieve"
  /\ lam.listing = "ok"
  /\ Len(store) = 3
  /\ ~store[1].dir /\ store[1].fetch = "ok" /\ store[1].doc = D1
  /\ ~store[2].dir /\ ~Retrievable(store[2])
  /\ store[3].doc = D2 /\ Retrievable(store[3])
  /\ lam.documents = << D1, D2 >>

-----------------------------------------------------------------------------
(* Properties of the chatbot's answer *)

\* The handler got as far as the retrieval step.
Retrieving == lam.fn = "chatbot" /\ lam.listing \in {"ok", "fail"}

\* The model call returned a text.
ModelAnswered == lam.model.kind = "text" /\ lam.model.text # "<undefined>"

\* C11: when the listing fails or yields no document, and the model call
\* returns a text, the chatbot handler answers 200 with sources = [].
C11_NoDocumentsStill200 ==
  (Retrieving /\ (lam.listing = "fail" \/ Retrieved = << >>) /\ ModelAnswered)
  => (lam.status = 200 /\ lam.sources = << >>)

\* The listing of a bucket that holds a document fails; the answer is 200.
C11_Witness ==
  /\ Retrieving /\ lam.listing = "fail"
  /\ Retrieved # << >>
  /\ lam.status = 200 /\ lam.sources = << >>
  /\ lam.answer = "It is thirty days."

-----------------------------------------------------------------------------
(* POST /api/chatbot/ask through the proxies, and POST /chatbot/ask directly *)

\* The ID token of the session the proxy resolved (NoTok: no session).
ProxySessions ==
  { NoTok, BTok(FALSE, "id", "admin") } \cup
  { BTok(TRUE, "id", r) : r \in {"user", "admin", RoleAbsent} }

\* One proxied question.  The proxy's fetch is answered by the function, run
\* on the forwarded event, or by something in front of it.
ProxyCall(fn, token, body, admitted, Deliver(_)) ==
  IF ~admitted.ok
  THEN px' = PxOf(fn, token, body, NoUpstream, admitted.msg) /\ lam' = lam
  ELSE
    \/ \E u \in OtherUpstreams :
         px' = PxOf(fn, token, body, u, Deliver(u)) /\ lam' = lam
    \/ LET e == Event("bearer", token, NoTok, admitted.value, ChatPath, "POST")
           a == chatbotAdmit(e, verifierReady)
       IN
       IF ~a.ok
       THEN /\ lam' = LamOf("chatbot", e, "n/a", << >>, a.msg)
            /\ px' = PxOf(fn, token, body, FromHandler(a.msg), Deliver(FromHandler(a.msg)))
       ELSE \E listing \in {"ok", "fail"}, outcome \in ModelOutcomes :
              LET r == chatbotAnswer(e, a.value, listing, store, outcome) IN
              /\ lam' = LamOf("chatbot", e, listing, retrieveKnowledgeBase(listing, store), r)
              /\ px' = PxOf(fn, token, body, FromHandler(r), Deliver(FromHandler(r)))

Idle == px.fn = "none" /\ lam.fn = "none"

SessionProxyAsk ==
  /\ Idle
  /\ \E session \in ProxySessions, body \in ProxyBodies, endpoint \in BOOLEAN :
       ProxyCall("sessionAsk", session, body,
                 sessionProxyAdmit(session, body, endpoint), sessionProxyDeliver)
  /\ UNCHANGED <<cookies, now, resp, respFresh, store, verifierReady, lastPrompt, pool, chat>>

BearerProxyAsk ==
  /\ Idle
  /\ \E auth \in {"none", "basic", "bearer"}, body \in ProxyBodies, endpoint \in BOOLEAN :
       \E token \in IF auth = "bearer" THEN BearerTokens ELSE {NoTok} :
          ProxyCall("bearerAsk", token, body,
                    bearerProxyAdmit(auth, body, endpoint), bearerProxyDeliver)
  /\ UNCHANGED <<cookies, now, resp, respFresh, store, verifierReady, lastPrompt, pool, chat>>

ProxyReturn ==
  /\ px.fn # "none"
  /\ px' = IdlePx
  /\ lam' = IdleLam
  /\ UNCHANGED <<cookies, now, resp, respFresh, store, verifierReady, lastPrompt, pool, chat>>

\* The ID token of the session the admin proxy resolved.
AdminProxySessions ==
  { NoTok, BTok(FALSE, "id", "admin") } \cup { BTok(TRUE, "id", r) : r \in Roles }

StatsPath == << "/admin", "/stats" >>

\* One proxied statistics request.
AdminProxyStats ==
  /\ Idle
  /\ \E session \in AdminProxySessions, endpoint \in BOOLEAN :
       LET admitted == adminProxyAdmit(session, endpoint) IN
       IF ~admitted.ok
       THEN px' = PxOf("adminStats", session, NoBody, NoUpstream, admitted.msg) /\ lam' = lam
       ELSE
         \/ \E u \in OtherUpstreams :
              px' = PxOf("adminStats", session, NoBody, u, adminProxyDeliver(u)) /\ lam' = lam
         \/ LET e == Event("bearer", admitted.value, NoTok, NoBody, StatsPath, "GET")
                a == adminAdmit(e, verifierReady)
            IN
            IF ~a.ok
            THEN /\ lam' = LamOf("admin", e, "n/a", << >>, a.msg)
                 /\ px' = PxOf("adminStats", session, NoBody, FromHandler(a.msg),
                               adminProxyDeliver(FromHandler(a.msg)))
            ELSE \E listUsers \in ListUsersOutcomes :
                   LET r == adminStats(listUsers) IN
                   /\ lam' = LamOf("admin", e, "n/a", << >>, r)
                   /\ px' = PxOf("adminStats", session, NoBody, FromHandler(r),
                                 adminProxyDeliver(FromHandler(r)))
  /\ UNCHANGED <<cookies, now, resp, respFresh, store, verifierReady, lastPrompt, pool, chat>>

NextProxy == SessionProxyAsk \/ BearerProxyAsk \/ AdminProxyStats \/ ProxyReturn

SpecProxy == Init /\ [][NextProxy]_vars

\* The function called without a proxy in front.
DirectAsk == px.fn = "none" /\ InvokeChatbot
DirectReturn == px.fn = "none" /\ LambdaReturn
FillBucket == px.fn = "none" /\ PutObject

NextAsk ==
  \/ FillBucket \/ DirectAsk \/ DirectReturn
  \/ SessionProxyAsk \/ BearerProxyAsk \/ ProxyReturn

SpecAsk == Init /\ [][NextAsk]_vars

-----------------------------------------------------------------------------
(* Properties of the question's path through the proxy and the handler *)

Proxied == px.fn \in {"sessionAsk", "bearerAsk"}

\* The proxy found a session (an ID token to forward).
SessionResolved == Proxied /\ px.token # NoTok

\* The function was called directly by a caller it authenticates and admits.
DirectAuthorized ==
  /\ px.fn = "none" /\ lam.fn = "chatbot"
  /\ Verified /\ PresentedToken.role \in {"user", "admin"}

\* The question is missing, is not a string, or is empty after trimming.
NoQuestion(body) ==
  body.kind = "object" /\ body.question \in {"<absent>", "<number>", "", "   "}

\* C12: with a session, the proxy answers 400 INVALID_QUESTION to a missing,
\* non-string or blank question and calls nothing; the handler answers an
\* authenticated caller the same way.
C12_BlankQuestionRejected ==
  /\ (SessionResolved /\ NoQuestion(px.body)) =>
        /\ px.status = 400 /\ px.code = "INVALID_QUESTION" /\ px.shape = "envelope"
        /\ ~px.called /\ px.upstream = NoUpstream /\ lam.fn = "none"
  /\ (DirectAuthorized /\ NoQuestion(lam.event.body)) =>
        /\ lam.status = 400 /\ lam.code = "INVALID_QUESTION"
        /\ lam.effects = {}

\* A question of three blanks is refused by the session proxy.
C12_Witness ==
  /\ px.fn = "sessionAsk" /\ SessionResolved
  /\ px.body.question = "   "
  /\ px.status = 400 /\ px.code = "INVALID_QUESTION" /\ ~px.called

TooLong(body) == body.kind = "object" /\ QuestionLength(body.question) > MaxQuestionLength

\* C13: with a session, the proxy answers 400 INVALID_QUESTION to every
\* question longer than the maximum length, before any outbound call.
C13_LongQuestionRejected ==
  (SessionResolved /\ TooLong(px.body)) =>
     (px.status = 400 /\ px.code = "INVALID_QUESTION" /\ ~px.called)

\* A question longer than the maximum reaches the function and is answered.
C13_Witness ==
  /\ SessionResolved /\ TooLong(px.body)
  /\ px.called
  /\ lam.fn = "chatbot" /\ lam.event.body.question = LongQuestion
  /\ px.status = 200

\* The fetch was answered, and the answer's body is not JSON.
NotJsonAnswer == Proxied /\ px.called /\ px.upstream.kind # "network" /\ ~px.upstream.parses

\* C14: whenever the proxy's fetch is answered with a body that is not JSON,
\* the proxy responds 502 GATEWAY_ERROR in the error envelope.
C14_NotJsonIs502 ==
  NotJsonAnswer => (px.status = 502 /\ px.code = "GATEWAY_ERROR" /\ px.shape = "envelope")

\* The session proxy answers an HTML error page with 500 INTERNAL_ERROR.
C14_Witness ==
  /\ px.fn = "sessionAsk" /\ NotJsonAnswer
  /\ px.upstream.shape = "html"
  /\ px.status = 500 /\ px.code = "INTERNAL_ERROR"

\* The (status, code) pairs of the error shape.
ListedErrors ==
  { <<400, "INVALID_REQUEST">>, <<400, "INVALID_QUESTION">>, <<401, "UNAUTHORIZED">>,
    <<403, "FORBIDDEN">>, <<502, "GATEWAY_ERROR">>, <<503, "SERVICE_UNAVAILABLE">>,
    <<503, "CONFIGURATION_ERROR">>, <<500, "INTERNAL_ERROR">> }

\* The messages the handler and the proxies write themselves.
FixedMessages ==
  { "Invalid request body", "Question is required and must be a non-empty string",
    "Authentication failed", "Authentication required", "Insufficient permissions",
    "AI service temporarily unavailable", "Unable to connect to chatbot service",
    "API endpoint not configured. Please deploy the backend first.",
    "API Gateway returned an invalid response. Check authentication configuration.",
    "An unexpected error occurred" }

\* C15: every non-200 response to POST /chatbot/ask, from the handler or from
\* a proxy, is {error: {code, message}} with a listed (status, code) pair and
\* one of the fixed messages.
C15_ErrorEnvelope ==
  /\ (lam.fn = "chatbot" /\ lam.status # 200) =>
        (<<lam.status, lam.code>> \in ListedErrors /\ lam.message \in FixedMessages)
  /\ (Proxied /\ px.status # 200) =>
        /\ px.shape = "envelope"
        /\ <<px.status, px.code>> \in ListedErrors
        /\ \E m \in FixedMessages : px.message = << m >>

\* API Gateway's own 403 is handed to the client as it came.
C15_Witness ==
  /\ Proxied /\ px.called
  /\ px.upstream.kind = "gateway"
  /\ px.status = 403 /\ px.shape = "message"
  /\ px.message = << "Missing Authentication Token" >>

\* No body, a body that is not JSON, JSON null, or an object without question.
Malformed(body) ==
  \/ body.kind \in {"undefined", "notjson", "null"}
  \/ body.kind = "object" /\ body.question = "<absent>"

\* C16: for an authenticated and authorized caller, every malformed or
\* missing input to POST /chatbot/ask is answered 400 INVALID_REQUEST or
\* INVALID_QUESTION, at the proxy and at the handler.
C16_MalformedInputIs400 ==
  /\ (SessionResolved /\ Malformed(px.body)) =>
        (px.status = 400 /\ px.code \in {"INVALID_REQUEST", "INVALID_QUESTION"})
  /\ (DirectAuthorized /\ Malformed(lam.event.body)) =>
        (lam.status = 400 /\ lam.code \in {"INVALID_REQUEST", "INVALID_QUESTION"})

\* The handler answers a JSON null body with 500 INTERNAL_ERROR.
C16_Witness ==
  /\ DirectAuthorized
  /\ lam.event.body.kind = "null"
  /\ lam.status = 500 /\ lam.code = "INTERNAL_ERROR"

\* The model's response has no content, or a first content item whose text
\* is empty or missing.
NoAnswerText ==
  \/ lam.model.kind = "nocontent"
  \/ lam.model.kind = "text" /\ lam.model.text \in {"", "<undefined>"}

\* C17: every 200 response of the chatbot handler carries a non-empty answer,
\* and a model response without a text is answered 503 SERVICE_UNAVAILABLE.
C17_AnswerNeverEmpty ==
  lam.fn = "chatbot" =>
     /\ lam.status = 200 => lam.answer \notin {"", "<undefined>"}
     /\ NoAnswerText => (lam.status = 503 /\ lam.code = "SERVICE_UNAVAILABLE")

\* The model returned an empty text and the handler answered 200 with it.
C17_Witness ==
  /\ lam.fn = "chatbot"
  /\ lam.model.kind = "text" /\ lam.model.text = ""
  /\ lam.status = 200 /\ lam.answer = ""

-----------------------------------------------------------------------------
(* constructPrompt applied to a question and the documents of a bucket *)

PromptQuestions == { PlainQuestion, "Document 1: what is it?" }

ConstructPrompt ==
  /\ lam.fn = "none"
  /\ \E question \in PromptQuestions, listing \in {"ok", "fail"} :
       LET documents == retrieveKnowledgeBase(listing, store) IN
       /\ lastPrompt' = constructPrompt(question, documents)
       /\ lam' = LamOf("prompt",
                       Event("none", NoTok, NoTok, Body("object", question, ""), << >>, ""),
                       listing, documents,
                       ErrorReply(0, "", "", retrieveEffects(listing, store), NotCalled))
  /\ UNCHANGED <<store, verifierReady, cookies, now, resp, respFresh, px, pool, chat>>

NextPrompt == PutDocument \/ ConstructPrompt \/ LambdaReturn

SpecPrompt == Init /\ [][NextPrompt]_vars

\* The fixed parts of the prompt.
ContextHeader == <<"header", 0, "Here is relevant information from the knowledge base:">>
Instructions == <<"instructions", 0, "Based on the information provided above">>

Assembled == lam.fn = "prompt" /\ lastPrompt.ok

\* C18: with no document the prompt is the instruction block and the
\* question only; with n documents it is the context header, then for k =
\* 1..n the block 'Document k: <title>' followed by the k-th document's
\* content, in retrieval order, then the instruction block and the question.
C18_PromptLayout ==
  Assembled =>
     LET docs == lam.documents
         parts == lastPrompt.value
         n == Len(docs)
         asked == <<"Question", 0, lam.event.body.question>>
     IN
     IF n = 0
     THEN /\ parts = << Instructions, asked >>
          /\ \A i \in 1..Len(parts) : parts[i][1] \notin {"header", "Document", "content"}
     ELSE /\ Len(parts) = 2 * n + 3
          /\ parts[1] = ContextHeader
          /\ \A k \in 1..n :
                /\ parts[2 * k] = <<"Document", k, docs[k].title>>
                /\ parts[2 * k + 1] = <<"content", k, docs[k].content>>
          /\ parts[2 * n + 2] = Instructions
          /\ parts[2 * n + 3] = asked

\* The same document retrieved twice in a row appears twice in the prompt.
C18_Witness ==
  /\ Assembled
  /\ lam.documents = << D1, D1, D2 >>
  /\ Len(lastPrompt.value) = 9
  /\ lastPrompt.value[4] = <<"Document", 2, "Returns">>
  /\ lastPrompt.value[6] = <<"Document", 3, "Shipping">>

-----------------------------------------------------------------------------
(* Session resolution when the browser holds cookies of several principals *)

\* The cookie in which the browser library keeps the user name of the
\* principal that signed in last.
LastAuthUserName == << Provider, ClientId, "LastAuthUser" >>
UserValue(user) == Tok(1, "garbage", user, RoleAbsent, 0)

\* alice has the role user, bob the role admin; the third principal's user
\* name is the word LastAuthUser.
Principals == { "alice", "bob", "LastAuthUser" }
PrincipalRole(user) == IF user = "bob" THEN "admin" ELSE "user"
PrincipalToken(user) == Tok(3, "object", user, PrincipalRole(user), MaxTime)

SessionCookies ==
  { Cookie(IdTokenName(u), PrincipalToken(u)) : u \in Principals }
  \cup { Cookie(LastAuthUserName, UserValue(u)) : u \in Principals }
  \cup { Cookie(SessionCookieName("accessToken"), Tok(3, "object", "LastAuthUser", RoleAbsent, MaxTime)) }

SignInCookie ==
  /\ \E c \in SessionCookies : cookies' = SetCookieIn(cookies, c)
  /\ respFresh' = FALSE
  /\ UNCHANGED <<now, resp>>
  /\ BackendUnchanged

\* A server component or API route resolves the session.
ServerSessionLoad ==
  /\ LET session == getServerSession(cookies) IN
     resp' = IF session.null
             THEN GateResp("serverSession", NoPath, "none",
                           Response("null", NoPath, NoPath, "", "", TRUE))
             ELSE [GateResp("serverSession", NoPath, "none",
                            Response("session", NoPath, NoPath, "", "", TRUE))
                   EXCEPT !.token = session.idToken]
  /\ respFresh' = TRUE
  /\ UNCHANGED <<cookies, now>>
  /\ BackendUnchanged

NextSession ==
  \/ SignInCookie \/ DeleteCookie
  \/ GatekeeperRequest \/ UserPageLoad \/ AdminPageLoad \/ ServerSessionLoad

SpecSession == Init /\ [][NextSession]_vars

\* The principal the LastAuthUser cookie names, when its idToken cookie is in
\* the jar beside that of another principal.
IsCurrent(user) ==
  /\ \E i \in 1..Len(cookies) : cookies[i] = Cookie(LastAuthUserName, UserValue(user))
  /\ HasCookie(cookies, IdTokenName(user))
  /\ \E other \in Principals \ {user} : HasCookie(cookies, IdTokenName(other))

OwnJar(user) == << Cookie(IdTokenName(user), PrincipalToken(user)) >>

SameDecision(r) ==
  /\ resp.kind = r.kind /\ resp.target = r.target /\ resp.redirect = r.redirect
  /\ resp.error = r.error /\ resp.role = r.role

\* C19: when the jar holds token cookies of more than one principal, the
\* Gatekeeper, the page loaders and the server session resolver work with
\* the idToken of the principal that is logged in, never with another's.
C19_CurrentPrincipalSelected ==
  \A user \in Principals :
     (respFresh /\ IsCurrent(user)) =>
        /\ resp.op = "middleware" => SameDecision(middleware(resp.path, OwnJar(user), now))
        /\ resp.op = "userPage" => SameDecision(userPageProps(OwnJar(user)))
        /\ resp.op = "adminPage" => SameDecision(adminPageProps(OwnJar(user)))
        /\ resp.op = "serverSession" =>
              (resp.kind = "session" /\ resp.token = PrincipalToken(user))

\* alice is logged in, bob's cookie comes first: /admin is opened as admin.
C19_Witness ==
  /\ respFresh /\ IsCurrent("alice")
  /\ resp.op = "middleware" /\ resp.path = P_admin
  /\ resp.kind = "next" /\ resp.role = "admin"

-----------------------------------------------------------------------------
(* The bearer credential of the function call *)

\* The request carries Authorization: Bearer <idToken> with a genuine,
\* unexpired ID token of role user or admin, and a non-empty question.
BearerIdTokenAsk ==
  /\ lam.fn = "chatbot" /\ verifierReady
  /\ lam.event.auth = "bearer"
  /\ lam.event.headerToken.genuine /\ lam.event.headerToken.use = "id"
  /\ lam.event.headerToken.role \in {"user", "admin"}
  /\ lam.event.body.kind = "object" /\ lam.event.body.question = PlainQuestion

\* C20: such a request passes the handler's token validation and role
\* validation, and is answered 200 with the answer when the model call
\* succeeds.
C20_IdTokenAccepted ==
  BearerIdTokenAsk =>
     /\ lam.status \notin {401, 403}
     /\ lam.listing \in {"ok", "fail"}
     /\ (ModelAnswered /\ lam.model.text # "") => (lam.status = 200 /\ lam.answer = lam.model.text)

\* The ID token is refused: 401, and nothing is retrieved or generated.
C20_Witness ==
  /\ BearerIdTokenAsk
  /\ lam.status = 401 /\ lam.code = "UNAUTHORIZED"
  /\ lam.effects = {} /\ lam.listing = "n/a"

-----------------------------------------------------------------------------
(* State machine: accounts of the user pool *)

PoolUnchanged ==
  UNCHANGED <<cookies, now, resp, respFresh, store, verifierReady, lam, px, lastPrompt, chat>>

\* The pool invokes the trigger for one account; either copy of the handler
\* may be the deployed one, and the function may or may not hold the
\* cognito-idp:AdminUpdateUserAttributes permission.
Trigger(accounts, userName, triggerSource) ==
  \E granted \in BOOLEAN, checked \in BOOLEAN :
    LET event == TriggerEvent(UserPoolId, userName, triggerSource)
        done == IF checked THEN postConfirmationChecked(accounts, event, granted)
                ELSE postConfirmation(accounts, event, granted)
    IN pool' = PoolOf(done.accounts, accounts, done)

SignUp ==
  /\ \E u \in UserNames :
       /\ pool.accounts[u].status = "absent"
       /\ pool' = [pool EXCEPT !.accounts[u] = Account("unconfirmed", RoleAbsent)]
  /\ PoolUnchanged

ConfirmSignUp ==
  /\ \E u \in UserNames :
       /\ pool.accounts[u].status = "unconfirmed"
       /\ Trigger([pool.accounts EXCEPT ![u].status = "confirmed"], u,
                  "PostConfirmation_ConfirmSignUp")
  /\ PoolUnchanged

ConfirmForgotPassword ==
  /\ \E u \in UserNames :
       /\ pool.accounts[u].status = "confirmed"
       /\ Trigger(pool.accounts, u, "PostConfirmation_ConfirmForgotPassword")
  /\ PoolUnchanged

\* An operator sets the attribute by hand (the way an account becomes admin).
SetRoleManually ==
  /\ \E u \in UserNames, role \in { "user", "admin" } :
       /\ pool.accounts[u].status = "confirmed"
       /\ pool' = [pool EXCEPT !.accounts[u].role = role]
  /\ PoolUnchanged

NextPool == SignUp \/ ConfirmSignUp \/ ConfirmForgotPassword \/ SetRoleManually

SpecPool == Init /\ [][NextPool]_vars

-----------------------------------------------------------------------------
(* Properties of role assignment *)

Triggered == pool.last.event # NoTrigger

\* C21: the post-confirmation handler sets the role to 'user' only on an
\* account's first confirmation: an invocation for an account that already
\* has a role leaves that role unchanged, and the only role value the handler
\* ever writes is 'user'.
C21_RoleSetOnlyOnFirstConfirmation ==
  Triggered =>
    /\ pool.last.sent => pool.last.command.Value = "user"
    /\ \A u \in UserNames :
         Truthy(pool.before[u].role) =>
           pool.last.accounts[u].role = pool.before[u].role

\* An admin confirms a password reset and comes out of the trigger as 'user'.
C21_Witness ==
  /\ pool.last.event.triggerSource = "PostConfirmation_ConfirmForgotPassword"
  /\ pool.last.sent /\ ~pool.last.threw
  /\ pool.before[pool.last.event.userName].role = "admin"
  /\ pool.last.accounts[pool.last.event.userName].role = "user"

-----------------------------------------------------------------------------
(* app/api/auth/logout/route.js: signing out *)

IsCognitoCookie(cookie) == NameIncludes(cookie.name, Provider)

\* A variant that stops after the first Cognito cookie it deletes.
RECURSIVE logoutClearFirst(_)
logoutClearFirst(jar) ==
  IF jar = << >> THEN << >>
  ELSE IF IsCognitoCookie(Head(jar)) THEN Tail(jar)
       ELSE << Head(jar) >> \o logoutClearFirst(Tail(jar))

\* allCookies.forEach: every cookie whose name includes the provider prefix
\* is deleted; the others stay, in their order.
logoutClear(jar) == SelectSeq(jar, LAMBDA cookie : ~IsCognitoCookie(cookie))

\* POST: the redirect to /login, on the try path and on the catch path alike.
logoutPOST == Response("redirect", P_login, NoPath, "", "", TRUE)

LogoutCookies ==
  { Cookie(IdTokenName("alice"), Tok(3, "object", "alice", r, e)) :
      r \in { "user", RoleAbsent }, e \in { 0, MaxTime } }
  \cup { Cookie(IdTokenName("bob"), PrincipalToken("bob")),
         Cookie(LastAuthUserName, UserValue("alice")),
         Cookie(DecoyName, Tok(3, "object", "mallory", "admin", MaxTime)) }

BrowserStoresCookie ==
  /\ \E c \in LogoutCookies : cookies' = SetCookieIn(cookies, c)
  /\ respFresh' = FALSE
  /\ UNCHANGED <<now, resp>>
  /\ BackendUnchanged

\* POST /api/auth/logout: the request passes the Gatekeeper first; the route
\* handler runs only if the Gatekeeper lets it through.  The response record
\* keeps, as token, the idToken the jar held when the request arrived.
LogoutRequest ==
  /\ LET gate == middleware(P_apiLogout, cookies, now) IN
       IF gate.kind = "next"
       THEN /\ cookies' = logoutClear(cookies)
            /\ resp' = [GateResp("logout", P_apiLogout, "none", logoutPOST)
                        EXCEPT !.token = getIdTokenFromCookies(cookies)]
       ELSE /\ cookies' = cookies
            /\ resp' = GateResp("logoutBlocked", P_apiLogout, "none", gate)
  /\ respFresh' = TRUE
  /\ UNCHANGED now
  /\ BackendUnchanged

NextLogout ==
  BrowserStoresCookie \/ DeleteCookie \/ Tick \/ GatekeeperRequest \/ LogoutRequest

SpecLogout == Init /\ [][NextLogout]_vars

(* Properties of signing out *)

JustLoggedOut == resp.op = "logout" /\ respFresh

NoCognitoCookie(jar) == \A i \in 1..Len(jar) : ~IsCognitoCookie(jar[i])

-----------------------------------------------------------------------------
(* Properties of the proxies' own session check *)

ThroughProxy == px.fn \in { "sessionAsk", "bearerAsk", "adminStats" }

-----------------------------------------------------------------------------
(* Status code and failing stage *)

\* The role check of the invoked handler fails on a verified token: the claim
\* is absent or empty, is not a recognised role, or is not the role the
\* endpoint requires.
RoleCheckFails ==
  /\ Invoked /\ Verified
  /\ \/ ~Truthy(PresentedToken.role)
     \/ PresentedToken.role \notin { "user", "admin" }
     \/ lam.fn = "admin" /\ PresentedToken.role # "admin"

\* C24: in the backend handlers every failure of the role check on a verified
\* token is answered 403 FORBIDDEN, and 401 UNAUTHORIZED is returned only
\* when the token is missing, invalid or expired.
C24_StatusFollowsStage ==
  /\ RoleCheckFails => (lam.status = 403 /\ lam.code = "FORBIDDEN")
  /\ (Invoked /\ lam.status = 401) => ~Verified

\* A verified token without a role claim is answered 401 by the chatbot.
C24_Witness ==
  /\ lam.fn = "chatbot" /\ lam.event.auth = "bearer"
  /\ Verified /\ PresentedToken.role = RoleAbsent
  /\ lam.status = 401 /\ lam.code = "UNAUTHORIZED" /\ lam.effects = {}

-----------------------------------------------------------------------------
(* Stored objects and the question *)

\* C25: whatever the stored objects contain, every element of the retrieved
\* list is a Document (an object with a title and a content), a value that is
\* not one is skipped, and the question fails only if the model call does.
C25_StoredContentCannotFail ==
  Retrieving =>
    /\ \A i \in 1..Len(lam.documents) : lam.documents[i].json = "object"
    /\ lam.status # 200 => (lam.model # NotCalled /\ ~ModelAnswered)

\* The bucket holds one object whose body is the JSON text null: it is in
\* the retrieved list, the model is never called, and the answer is 500.
C25_Witness ==
  /\ Retrieving /\ lam.listing = "ok"
  /\ Len(store) = 1 /\ store[1] = Obj(FALSE, "ok", "null", NullDoc)
  /\ lam.documents = << NullDoc >>
  /\ lam.model = NotCalled
  /\ lam.status = 500 /\ lam.code = "INTERNAL_ERROR"

-----------------------------------------------------------------------------
(* The Gatekeeper's cookie scan and the server-side session resolver *)

\* The Gatekeeper lets a request for the chatbot proxy through, for the jar
\* and the time of the state.
GateAuthorizes == middleware(P_apiAsk, cookies, now).kind = "next"

SessionJustResolved == resp.op = "serverSession" /\ respFresh

\* C26: for every cookie jar the Gatekeeper's scan and getServerSession agree
\* on whether there is a session and on its idToken: for a jar with which the
\* Gatekeeper authorizes the request, the resolver returns a session (so no
\* 401 'Authentication required' and no redirect to login follows), and its
\* idToken is the one the Gatekeeper read.
C26_ResolversAgree ==
  (SessionJustResolved /\ GateAuthorizes) =>
     (resp.kind = "session" /\ resp.token = getIdTokenFromCookies(cookies))

\* The jar a sign-in leaves for alice: the Gatekeeper authorizes, the resolver
\* returns null.
C26_Witness ==
  /\ SessionJustResolved /\ GateAuthorizes
  /\ cookies = OwnJar("alice")
  /\ resp.kind = "null"
  /\ sessionProxyAdmit(NoTok, Body("object", PlainQuestion, ""), TRUE).msg.status = 401

-----------------------------------------------------------------------------
(* Pages a visitor without a session needs *)

EntryPages == { P_root, P_login, P_signup, P_unauthorized }

\* C27: home, login, sign-up and the unauthorized page pass the Gatekeeper
\* for a request that carries no session cookie.
C27_EntryPagesArePublic ==
  (/\ resp.op = "middleware" /\ respFresh
   /\ NoCognitoCookie(cookies)
   /\ resp.path \in EntryPages)
  => resp.kind = "next"

\* A visitor with an empty jar asks for /signup and is sent to /login.
C27_Witness ==
  /\ resp.op = "middleware" /\ respFresh
  /\ cookies = << >>
  /\ resp.path = P_signup
  /\ resp.kind = "redirect" /\ resp.target = P_login /\ resp.redirect = P_signup

-----------------------------------------------------------------------------
(* Following the Gatekeeper's redirects *)

\* The browser follows the redirect it was just given: a request for the
\* target's pathname (the query string is not part of it) with the same jar.
FollowRedirect ==
  /\ resp.op \in { "middleware", "follow" }
  /\ resp.kind = "redirect" /\ respFresh
  /\ resp' = GateResp("follow", resp.target, resp.kind,
                      middleware(resp.target, cookies, now))
  /\ respFresh' = TRUE
  /\ UNCHANGED <<cookies, now>>
  /\ BackendUnchanged

NextFollow == StoreCookie \/ DeleteCookie \/ Tick \/ GatekeeperRequest \/ FollowRedirect

SpecFollow == Init /\ [][NextFollow]_vars

\* C28: every redirect target the Gatekeeper produces is a public route, so
\* for any cookies and any path the request that follows a redirect is served
\* (at most one redirect, no loop).
C28_RedirectsEndAfterOneHop ==
  /\ (resp.op \in { "middleware", "follow" } /\ resp.kind = "redirect") =>
        (resp.target \in { P_login, P_unauthorized } /\ isPublicRoute(resp.target))
  /\ resp.op = "follow" => (resp.prev = "redirect" /\ resp.kind = "next")

\* A token without a sufficient role in the jar: the redirect to /unauthorized
\* was followed and the page is served.
C28_Witness ==
  /\ resp.op = "follow" /\ respFresh /\ resp.prev = "redirect"
  /\ resp.path = P_unauthorized /\ resp.kind = "next"
  /\ ~Falsy(getIdTokenFromCookies(cookies))
  /\ middleware(P_admin, cookies, now).target = P_unauthorized

-----------------------------------------------------------------------------
(* State machine: one chat in the browser *)

ChatUnchanged ==
  UNCHANGED <<cookies, now, resp, respFresh, store, verifierReady, lam, px, lastPrompt, pool>>

ChatInputs == { PlainQuestion, PaddedQuestion, "Document 1: what is it?", "   " }

\* `conv-${Date.now()}` for the successive turns of a chat.
GeneratedIds == << "conv-1001", "conv-1002", "conv-1003", "conv-1004" >>

Turn(c) == (Len(c.messages) + 1) \div 2

\* What can answer the request in flight.  A success is the handler's reply,
\* with the conversationId it computes from the one the request carried.
ChatResponses(c) ==
  { ChatResponse("success", 200, "It is thirty days.",
                 conversationIdOf(c.request.conversationId, GeneratedIds[Turn(c)]), ""),
    ChatResponse("error", 401, "", "", "Authentication failed"),
    ChatResponse("errorOther", 429, "", "", ""),
    ChatResponse("errorHtml", 502, "", "", ""),
    ChatResponse("successHtml", 200, "", "", ""),
    ChatResponse("network", 0, "", "", "") }
  \cup (IF c.request.direct
        THEN { ChatResponse("noToken", 0, "", "", ""), ChatResponse("noEndpoint", 0, "", "", "") }
        ELSE {})

\* The input and both buttons are disabled while isLoading.
TypeQuestion ==
  /\ ~chat.isLoading
  /\ \E value \in ChatInputs : chat' = handleInputChange(chat, value)
  /\ ChatUnchanged

SubmitQuestion ==
  /\ ~chat.isLoading
  /\ Len(chat.messages) + 2 <= MaxMessages
  /\ \E direct \in BOOLEAN : chat' = handleSubmit(chat, direct)
  /\ ChatUnchanged

\* The await of handleSubmit settles.
ChatRespond ==
  /\ chat.isLoading
  /\ \E response \in ChatResponses(chat) : chat' = handleResponse(chat, response)
  /\ ChatUnchanged

\* The Clear Chat button is rendered once there is a message.
ClearChat ==
  /\ ~chat.isLoading
  /\ chat.messages # << >>
  /\ chat' = handleClearChat(chat)
  /\ ChatUnchanged

NextChat == TypeQuestion \/ SubmitQuestion \/ ChatRespond \/ ClearChat

SpecChat == Init /\ [][NextChat]_vars

\* Every fetch settles: it resolves or it rejects.
SpecChatLive == Init /\ [][NextChat]_vars /\ WF_vars(ChatRespond)

-----------------------------------------------------------------------------
(* Properties of the chat client *)

\* C29: the handler echoes the conversationId a request carries and generates
\* one only when it carries none; every question after the first successful
\* answer carries the conversationId of that answer, the component keeps it,
\* and Clear Chat resets it to none.
C29_ConversationIdKept ==
  /\ chat.firstId # "" =>
       /\ chat.conversationId = chat.firstId
       /\ chat.isLoading => chat.request.conversationId = chat.firstId
       /\ \E i \in 1..Len(GeneratedIds) : chat.firstId = GeneratedIds[i]
  /\ (chat.firstId = "" /\ chat.isLoading) => chat.request.conversationId = ""
  /\ chat.messages = << >> => (chat.conversationId = "" /\ chat.firstId = "")

\* Three turns, the second one failed: the third question carried the
\* conversationId of the first answer and its answer returned it.
C29_Witness ==
  /\ Len(chat.messages) = 6 /\ ~chat.isLoading
  /\ chat.messages[2].type = "ai" /\ chat.messages[4].type = "error"
  /\ chat.messages[6].type = "ai"
  /\ chat.firstId = GeneratedIds[1]
  /\ chat.sentId = chat.firstId /\ chat.conversationId = chat.firstId

Alternates(messages) ==
  \A i \in 1..Len(messages) :
     IF i % 2 = 1 THEN messages[i].type = "user"
     ELSE messages[i].type \in { "ai", "error" }

\* C30: every submitted non-blank question adds one user message and is
\* followed, eventually, by exactly one reply; isLoading returns to false on
\* every path; nothing is sent while isLoading; user messages and replies
\* alternate in the history.
C30_OneReplyPerQuestion ==
  /\ [](/\ Alternates(chat.messages)
        /\ chat.isLoading <=> Len(chat.messages) % 2 = 1
        /\ chat.isLoading <=> chat.request # NoRequest)
  /\ [][chat.isLoading =>
          (/\ ~chat'.isLoading
           /\ Len(chat'.messages) = Len(chat.messages) + 1
           /\ SubSeq(chat'.messages, 1, Len(chat.messages)) = chat.messages)]_vars
  /\ [][(~chat.isLoading /\ chat'.isLoading) =>
          (/\ ~TrimmedEmpty(chat.question)
           /\ chat'.messages = Append(chat.messages, Message("user", Trim(chat.question))))]_vars
  /\ (chat.isLoading ~> ~chat.isLoading)

\* A question whose fetch was rejected and a question that was answered:
\* user, error, user, ai, and the client is idle.
C30_Witness ==
  /\ ~chat.isLoading /\ Len(chat.messages) = 4
  /\ chat.messages[1].type = "user" /\ chat.messages[2].type = "error"
  /\ chat.messages[3].type = "user" /\ chat.messages[4].type = "ai"
  /\ chat.error = ""

====
